---- MODULE Spec2Model ----
(***************************************************************************)
(* Fictures AI server (apps/ai-server): the API-key gate (src/auth.py),    *)
(* the route handlers (src/routes), the structured-output retry loop       *)
(* (src/services/text_service.py) and the ComfyUI dispatcher               *)
(* (src/services/image_service_comfyui_api.py).                            *)
(***************************************************************************)
EXTENDS Integers, Sequences, FiniteSets, TLC

(***************************************************************************)
(* Bounds of the model.                                                    *)
(***************************************************************************)
MaxRecords == 2
MaxRetries == 2
MaxLatency == 2
MaxNest == 1
MaxDeep == 3
MaxWide == 10

(***************************************************************************)
(* Program constants.                                                      *)
(***************************************************************************)
PrefixLen == 16
QueryLimit == 10
DefaultMaxRetries == 2
DefaultMaxTokens == 2048
WaitTimeout == 600
PollInterval == 1

\* Optional values: None is the empty tuple, a value v is <<v>>
None == << >>

Some(v) == <<v>>

Min(a, b) == IF a < b THEN a ELSE b

Rep(c, n) == [i \in 1..n |-> c]

(***************************************************************************)
(* JSON values.  A dict is JDict(f) with f a function from its keys, a     *)
(* string JStr(s), a list JList(q), an integer JNum(n), a float      *)
(* JFloat(t) with t its value in tenths.                                   *)
(***************************************************************************)
JDict(f) == [k |-> "dict", f |-> f]
JStr(str) == [k |-> "str", s |-> str]
JList(q) == [k |-> "list", q |-> q]
JNum(n) == [k |-> "num", n |-> n]
JFloat(t) == [k |-> "float", n |-> t]

IsDict(v) == v.k = "dict"
HasKey(v, key) == key \in DOMAIN v.f

(***************************************************************************)
(* self.workflow_template (image_service_comfyui_api.py 40-127): the       *)
(* ComfyUI graph, node id -> class_type and inputs; a reference to the     *)
(* output of another node is the list [node id, output index].             *)
(***************************************************************************)
Ref(node) == JList(<<JStr(node), JNum(0)>>)

Node(class_type, inputs) == JDict([class_type |-> JStr(class_type), inputs |-> JDict(inputs)])

WorkflowTemplate ==
    JDict(
      ("6" :> Node("CLIPTextEncode", [text |-> JStr("PLACEHOLDER_PROMPT"), clip |-> Ref("38")]))
   @@ ("7" :> Node("CLIPTextEncode", [text |-> JStr(""), clip |-> Ref("38")]))
   @@ ("3" :> Node("KSampler",
                   [seed |-> JNum(42), steps |-> JNum(4), cfg |-> JFloat(10),
                    sampler_name |-> JStr("euler"), scheduler |-> JStr("simple"),
                    denoise |-> JFloat(10), model |-> Ref("66"), positive |-> Ref("6"),
                    negative |-> Ref("7"), latent_image |-> Ref("58")]))
   @@ ("8" :> Node("VAEDecode", [samples |-> Ref("3"), vae |-> Ref("39")]))
   @@ ("37" :> Node("UNETLoader",
                    [unet_name |-> JStr("qwen_image_fp8_e4m3fn_scaled.safetensors"),
                     weight_dtype |-> JStr("fp8_e4m3fn")]))
   @@ ("38" :> Node("CLIPLoader",
                    [clip_name |-> JStr("qwen_2.5_vl_7b_fp8_scaled.safetensors"),
                     type |-> JStr("qwen_image")]))
   @@ ("39" :> Node("VAELoader", [vae_name |-> JStr("qwen_image_vae.safetensors")]))
   @@ ("58" :> Node("EmptyLatentImage",
                    [width |-> JNum(1024), height |-> JNum(1024), batch_size |-> JNum(1)]))
   @@ ("60" :> Node("SaveImage", [filename_prefix |-> JStr("ComfyUI"), images |-> Ref("8")]))
   @@ ("66" :> Node("ModelSamplingAuraFlow", [shift |-> JFloat(30), model |-> Ref("75")]))
   @@ ("75" :> Node("LoraLoaderModelOnly",
                    [lora_name |-> JStr("Qwen-Image-Lightning-4steps-V2.0.safetensors"),
                     strength_model |-> JFloat(10), model |-> Ref("37")])))

(***************************************************************************)
(* API keys are character sequences.  KeyA is exactly PrefixLen long,      *)
(* KeyAx and KeyAy share its first 16 characters, KeyB has another prefix, *)
(* KeyShort is one character too short.                                    *)
(***************************************************************************)
KeyEmpty == << >>
KeyShort == Rep("a", 15)
KeyA     == Rep("a", 16)
KeyAx    == Rep("a", 16) \o <<"x">>
KeyAy    == Rep("a", 16) \o <<"y">>
KeyB     == Rep("b", 16) \o <<"z">>

Secrets == {KeyEmpty, KeyShort, KeyA, KeyAx, KeyB}

(***************************************************************************)
(* bcrypt: hashpw salts the password; checkpw re-hashes the candidate      *)
(* password with the salt of the stored hash and compares.                 *)
(***************************************************************************)
BcryptHashpw(password, salt) == <<"2b", salt, password>>

BcryptCheckpw(password, hashed) == BcryptHashpw(password, hashed[2]) = hashed

\* api_key[:16]
KeyPrefixOf(api_key) == SubSeq(api_key, 1, Min(PrefixLen, Len(api_key)))

(***************************************************************************)
(* The api_keys table.  A row as scripts/reset_user_auth.py inserts it     *)
(* for a profile: the prefix and the hash are taken from the profile's     *)
(* key, the scopes from its role.  expires_at is relative to the clock     *)
(* (0 = now); the web application may store any expiry, a cleared active   *)
(* flag, or no expiry at all.                                              *)
(***************************************************************************)
ProfileUser(api_key) == IF api_key = KeyAx THEN "u1" ELSE "u2"

ProfileScopes(api_key) ==
    IF api_key = KeyAx THEN <<"stories:write">> ELSE <<"stories:read">>

ApiKeyRow(api_key, salt, active, expires) ==
    [ user_id      |-> ProfileUser(api_key),
      key_prefix   |-> KeyPrefixOf(api_key),
      key_hash     |-> BcryptHashpw(api_key, salt),
      scopes       |-> ProfileScopes(api_key),
      is_active    |-> active,
      expires_at   |-> expires,
      last_used_at |-> None ]

ExpiryValues == {None, Some(-1), Some(0), Some(1)}

Rows == { ApiKeyRow(k, 1, a, e) : k \in {KeyA, KeyAx}, a \in BOOLEAN, e \in ExpiryValues }

\* rows of other users that share the prefix of KeyA
FillerRow == ApiKeyRow(KeyAy, 1, TRUE, None)

Tables == UNION { [1..n -> Rows] : n \in 0..MaxRecords }

\* the stores a request is checked against: at most one row for the key
HttpTables == { t \in Tables : Len(t) <= 1 }

\* the users table: the owner of the KeyAx rows may be missing
UserTables == { {"u1", "u2"}, {"u2"} }

VARIABLES
    \* the credential store (PostgreSQL) and the settings
    api_keys,        \* the api_keys table: sequence of rows, a row's id is its index
    users,           \* ids of the rows of the users table
    database_url,    \* TRUE iff settings.database_url is set
    clock,           \* wall clock
    \* one call of verify_api_key
    vpc,             \* where the call is
    api_key,         \* its argument
    conn,            \* its connection: "none", "open", "closed"
    api_key_records, \* ids of the rows its prefix query fetched
    matched_key,     \* id of the matched row, 0 when none
    caught,          \* exception its except clause caught: "none" when none
    auth_result,     \* its return value: None or an AuthResult
    queries          \* statements the call has executed on its cursor

storeVars == <<api_keys, users, database_url, clock>>

VARIABLES
    \* one call of AuthResult.has_scope
    required_scope,  \* its argument
    has_scope_ret    \* its return value: None before the call returns

scopeVars == <<required_scope, has_scope_ret>>

callVars == <<vpc, api_key, conn, api_key_records, matched_key, caught,
              auth_result, queries>>

authVars == <<storeVars, callVars>>

VARIABLES
    \* the text service (TextGenerationService) and one call of generate_structured
    text_initialized,      \* self._initialized
    gpc,                   \* where the call is
    guided_type, json_schema, regex_pattern, choices, grammar,
    max_tokens, max_retries,                      \* its arguments
    effective_max_tokens, retry_count, last_error, \* its locals
    engine_calls,          \* the calls of engine.generate: request_id and max_tokens
    engine_outs,           \* what each call that ended gave: an output or a failure
    gen_ret,               \* the returned dict, None when nothing (or None) is returned
    gen_exc                \* the exception the call raised, "none" when none

genArgs == <<guided_type, json_schema, regex_pattern, choices, grammar, max_tokens, max_retries>>

genVars == <<text_initialized, gpc, genArgs, effective_max_tokens, retry_count, last_error,
             engine_calls, engine_outs, gen_ret, gen_exc>>

VARIABLES
    \* the ComfyUI dispatcher (QwenImageComfyUIAPIService) and one call of generate
    image_initialized,  \* self._initialized
    ipc,                \* where the call is
    now,                \* time.time(), in seconds
    start_time,         \* start_time of _wait_for_completion
    prompt_id,          \* the id the backend gave the queued workflow, None before
    backend_response,   \* the last HTTP exchange with the backend: its endpoint and outcome
    history,            \* what the last answered GET /history said of the job, None before
    sleep_start,        \* when the wait last called asyncio.sleep, 0 before
    img_ret,            \* what generate returned, None when nothing
    img_exc             \* the exception generate raised, "none" when none

imgVars == <<image_initialized, ipc, now, start_time, prompt_id, backend_response, history,
             sleep_start,
             img_ret, img_exc>>

VARIABLES
    \* one HTTP request to a router of src/routes
    hpc,              \* where the request is
    route,            \* the operation it addresses
    x_api_key,        \* its x-api-key header, None when absent
    authorization,    \* its Authorization header, None when absent
    prompt_too_long,  \* len(request.prompt) > 160000
    size_too_large,   \* request.width > 2048 or request.height > 2048
    auth,             \* the AuthResult the dependency handed to the endpoint, None before
    http_response     \* the response: None before, else status and detail

httpVars == <<hpc, route, x_api_key, authorization, prompt_too_long, size_too_large, auth, http_response>>

VARIABLES
    \* the budget estimator (_estimate_json_closing_tokens) called on a schema
    est_schema,    \* its argument
    est_nest,      \* how many times the schema has been nested one level deeper
    est_prev,      \* what it returned for the schema before the last nesting, None when none
    est_analysis,  \* the analysis of _analyze_json_schema, None before the call
    est_ret        \* its return value, None before the call returns

estVars == <<est_schema, est_nest, est_prev, est_analysis, est_ret>>

VARIABLES
    \* a sibling request's task on the same event loop
    sibling_pc,      \* "ready" until the loop has run it, then "done"
    sibling_ran_at   \* where the other task was when the sibling ran: <<vpc, ipc>>, None before

loopVars == <<sibling_pc, sibling_ran_at>>

VARIABLES
    \* requests handled concurrently, each by its own task, on the shared
    \* service instances
    workflow_template,  \* the image service's attribute workflow_template
    tasks,              \* task name -> the request's arguments and the locals of its call
    backend_queue       \* the job graphs the backend has accepted, in order of arrival

taskVars == <<workflow_template, tasks, backend_queue>>

vars == <<authVars, scopeVars, genVars, imgVars, httpVars, estVars, loopVars, taskVars>>

(***************************************************************************)
(* AuthResult (auth.py 21-43)                                              *)
(***************************************************************************)
AuthResult(user_id, email, scopes) ==
    [user_id |-> user_id, email |-> email, scopes |-> scopes]

Elems(seq) == { seq[i] : i \in DOMAIN seq }

\* a has_scope that lets either stories scope stand for the other
has_scope_symmetric(scopes, required) ==
    \/ required \in Elems(scopes)
    \/ "admin:all" \in Elems(scopes)
    \/ required \in {"stories:read", "stories:write"}
          /\ Elems(scopes) \cap {"stories:read", "stories:write"} # {}

has_scope(scopes, required) ==
    IF required \in Elems(scopes) THEN TRUE
    ELSE IF "admin:all" \in Elems(scopes) THEN TRUE
    ELSE IF required = "stories:read" /\ "stories:write" \in Elems(scopes) THEN TRUE
    ELSE FALSE

(***************************************************************************)
(* verify_api_key (auth.py 65-169)                                         *)
(***************************************************************************)
RECURSIVE KSubsets(_, _)
KSubsets(S, k) ==
    IF k = 0 THEN { {} }
    ELSE UNION { { T \cup {x} : T \in KSubsets(S \ {x}, k - 1) } : x \in S }

\* WHERE key_prefix = %s AND is_active = true
PrefixCandidates(table, key_prefix) ==
    { i \in DOMAIN table : table[i].key_prefix = key_prefix /\ table[i].is_active }

\* LIMIT 10 without ORDER BY: any QueryLimit of the rows that qualify
FetchedRowSets(table, key_prefix) ==
    LET all == PrefixCandidates(table, key_prefix)
    IN  IF Cardinality(all) <= QueryLimit THEN { all }
        ELSE { all \ D : D \in KSubsets(all, Cardinality(all) - QueryLimit) }

\* The loop over the fetched rows stops at the first row whose hash verifies
\* the key.  The query fixes no order, so any verifying row of the result can
\* be that row; 0 when no row verifies.
MatchedKeys(table, fetched, key) ==
    LET ok == { i \in fetched : BcryptCheckpw(key, table[i].key_hash) }
    IN  IF ok = {} THEN {0} ELSE ok

\* an expiry check that also rejects a key at the instant it expires
IsExpiredInclusive(row, t) == row.expires_at # None /\ row.expires_at[1] <= t

\* a verification that never looks at the expiry
IsExpiredIgnored(row, t) == FALSE

\* expires_at < datetime.now()
IsExpired(row, t) == row.expires_at # None /\ row.expires_at[1] < t

\* return None without a finally block: an open connection stays open
ReturnNoneLeaking ==
    /\ auth_result' = None
    /\ conn' = conn
    /\ vpc' = "return"

\* return None through the finally block, which closes an open connection
ReturnNone ==
    /\ auth_result' = None
    /\ conn' = IF conn = "open" THEN "closed" ELSE conn
    /\ vpc' = "return"

\* a verify_api_key without the except clause: the exception leaves the call
RaiseToCaller(exc) ==
    /\ caught' = "none"
    /\ auth_result' = None
    /\ conn' = IF conn = "open" THEN "closed" ELSE conn
    /\ vpc' = "raise"

\* except Exception: log and return None
CatchAndReturnNone(exc) ==
    /\ caught' = exc
    /\ ReturnNone

\* an entry without the length test: every key goes on to the store
VerifyEnterUnfiltered ==
    /\ vpc = "call"
    /\ vpc' = "connect"
    /\ UNCHANGED <<auth_result, conn, api_key_records, matched_key, caught, queries>>
    /\ UNCHANGED <<storeVars, api_key, scopeVars, genVars, imgVars, httpVars>>
    /\ UNCHANGED estVars
    /\ UNCHANGED <<loopVars, taskVars>>

\* auth.py 75-79
VerifyEnter ==
    /\ vpc = "call"
    /\ IF api_key = << >> \/ Len(api_key) < PrefixLen
       THEN /\ ReturnNone
            /\ UNCHANGED <<api_key_records, matched_key, caught, queries>>
       ELSE /\ vpc' = "connect"
            /\ UNCHANGED <<auth_result, conn, api_key_records, matched_key, caught, queries>>
    /\ UNCHANGED <<storeVars, api_key, scopeVars, genVars, imgVars, httpVars>>
    /\ UNCHANGED estVars
    /\ UNCHANGED <<loopVars, taskVars>>

\* get_db_connection (auth.py 46-62): HTTPException(500) when the url is not
\* set or psycopg2.connect raises; verify_api_key catches it and returns None
GetDbConnection ==
    /\ vpc = "connect"
    /\ \/ /\ database_url
          /\ conn' = "open"
          /\ vpc' = "select_keys"
          /\ UNCHANGED <<auth_result, caught>>
       \/ CatchAndReturnNone("HTTPException")
    /\ UNCHANGED <<storeVars, api_key, api_key_records, matched_key, queries, scopeVars, genVars, imgVars, httpVars>>
    /\ UNCHANGED estVars
    /\ UNCHANGED <<loopVars, taskVars>>

\* auth.py 84-120: the prefix query, the hash loop and the expiry check
SelectApiKeys ==
    /\ vpc = "select_keys"
    /\ \/ \* the query raises
          /\ CatchAndReturnNone("DatabaseError")
          /\ UNCHANGED <<api_key_records, matched_key, queries>>
       \/ /\ queries' = queries + 1
          /\ UNCHANGED caught
          /\ \E fetched \in FetchedRowSets(api_keys, KeyPrefixOf(api_key)) :
             \E m \in MatchedKeys(api_keys, fetched, api_key) :
                /\ api_key_records' = fetched
                /\ matched_key' = m
                /\ IF fetched = {} \/ m = 0 THEN ReturnNone
                   ELSE IF IsExpired(api_keys[m], clock) THEN ReturnNone
                   ELSE /\ vpc' = "select_user"
                        /\ UNCHANGED <<auth_result, conn>>
    /\ UNCHANGED <<storeVars, api_key, scopeVars, genVars, imgVars, httpVars>>
    /\ UNCHANGED estVars
    /\ UNCHANGED <<loopVars, taskVars>>

\* a user query whose result is not looked at
SelectUserUnchecked ==
    /\ vpc = "select_user"
    /\ queries' = queries + 1
    /\ vpc' = "update"
    /\ UNCHANGED <<auth_result, conn, caught>>
    /\ UNCHANGED <<storeVars, api_key, api_key_records, matched_key, scopeVars, genVars, imgVars, httpVars>>
    /\ UNCHANGED estVars
    /\ UNCHANGED <<loopVars, taskVars>>

\* auth.py 122-137
SelectUser ==
    /\ vpc = "select_user"
    /\ \/ \* the query raises
          /\ CatchAndReturnNone("DatabaseError")
          /\ UNCHANGED queries
       \/ /\ queries' = queries + 1
          /\ UNCHANGED caught
          /\ IF api_keys[matched_key].user_id \notin users
             THEN ReturnNone
             ELSE /\ vpc' = "update"
                  /\ UNCHANGED <<auth_result, conn>>
    /\ UNCHANGED <<storeVars, api_key, api_key_records, matched_key, scopeVars, genVars, imgVars, httpVars>>
    /\ UNCHANGED estVars
    /\ UNCHANGED <<loopVars, taskVars>>

\* an UPDATE without a try/except of its own: its failure reaches the outer
\* except clause
UpdateLastUsedBlocking ==
    /\ vpc = "update"
    /\ \/ /\ api_keys' = [api_keys EXCEPT ![matched_key].last_used_at = Some(clock)]
          /\ queries' = queries + 1
          /\ auth_result' = Some(AuthResult(api_keys[matched_key].user_id,
                                            <<"email", api_keys[matched_key].user_id>>,
                                            api_keys[matched_key].scopes))
          /\ conn' = "closed"
          /\ vpc' = "return"
          /\ UNCHANGED caught
       \/ /\ CatchAndReturnNone("DatabaseError")
          /\ UNCHANGED <<api_keys, queries>>
    /\ UNCHANGED <<users, database_url, clock, api_key, api_key_records, matched_key,
                   scopeVars, genVars, imgVars, httpVars>>
    /\ UNCHANGED estVars
    /\ UNCHANGED <<loopVars, taskVars>>

\* an UPDATE ... WHERE key_prefix = %s: it stamps every record that shares
\* the key's prefix
UpdateLastUsedByPrefix ==
    /\ vpc = "update"
    /\ \/ /\ api_keys' = [i \in DOMAIN api_keys |->
                             IF api_keys[i].key_prefix = KeyPrefixOf(api_key)
                             THEN [api_keys[i] EXCEPT !.last_used_at = Some(clock)]
                             ELSE api_keys[i]]
          /\ queries' = queries + 1
       \/ UNCHANGED <<api_keys, queries>>
    /\ auth_result' = Some(AuthResult(api_keys[matched_key].user_id,
                                      <<"email", api_keys[matched_key].user_id>>,
                                      api_keys[matched_key].scopes))
    /\ conn' = "closed"
    /\ vpc' = "return"
    /\ UNCHANGED <<users, database_url, clock, api_key, api_key_records, matched_key, caught,
                   scopeVars, genVars, imgVars, httpVars>>
    /\ UNCHANGED estVars
    /\ UNCHANGED <<loopVars, taskVars>>

\* auth.py 139-161: the UPDATE and its commit are inside their own try/except;
\* a failure is logged and the AuthResult is returned all the same
UpdateLastUsed ==
    /\ vpc = "update"
    /\ \/ /\ api_keys' = [api_keys EXCEPT ![matched_key].last_used_at = Some(clock)]
          /\ queries' = queries + 1
       \/ UNCHANGED <<api_keys, queries>>
    /\ auth_result' = Some(AuthResult(api_keys[matched_key].user_id,
                                      <<"email", api_keys[matched_key].user_id>>,
                                      api_keys[matched_key].scopes))
    /\ conn' = "closed"
    /\ vpc' = "return"
    /\ UNCHANGED <<users, database_url, clock, api_key, api_key_records, matched_key, caught,
                   scopeVars, genVars, imgVars, httpVars>>
    /\ UNCHANGED estVars
    /\ UNCHANGED <<loopVars, taskVars>>

InitStore ==
    /\ \E t \in Tables, fill \in {0, QueryLimit} :
          api_keys = t \o [i \in 1..fill |-> FillerRow]
    /\ users \in UserTables
    /\ database_url \in BOOLEAN
    /\ clock = 0

InitCall ==
    /\ conn = "none"
    /\ api_key_records = {}
    /\ matched_key = 0
    /\ caught = "none"
    /\ queries = 0

\* the text service after construction, no call of generate_structured
InitGenIdle ==
    /\ text_initialized = FALSE
    /\ gpc = "none"
    /\ guided_type = "json"
    /\ json_schema = None /\ regex_pattern = None /\ choices = None /\ grammar = None
    /\ max_tokens = DefaultMaxTokens
    /\ max_retries = DefaultMaxRetries
    /\ effective_max_tokens = 0
    /\ retry_count = 0
    /\ last_error = None
    /\ engine_calls = << >>
    /\ engine_outs = << >>
    /\ gen_ret = None
    /\ gen_exc = "none"

\* no concurrent requests: the services as constructed
InitTasksIdle ==
    /\ workflow_template = WorkflowTemplate
    /\ tasks = << >>
    /\ backend_queue = << >>

\* no sibling task that could run
InitLoopIdle ==
    /\ sibling_pc = "done"
    /\ sibling_ran_at = None

\* no call of the estimator
InitEstIdle ==
    /\ est_schema = [k |-> "dict", f |-> << >>]
    /\ est_nest = 0
    /\ est_prev = None
    /\ est_analysis = None
    /\ est_ret = None

\* the dispatcher after construction, no call of generate
InitImgIdle ==
    /\ image_initialized = FALSE
    /\ ipc = "none"
    /\ now = 0
    /\ start_time = 0
    /\ prompt_id = None
    /\ backend_response = None
    /\ history = None
    /\ img_ret = None
    /\ img_exc = "none"
    /\ sleep_start = 0

\* no HTTP request
InitHttpIdle ==
    /\ hpc = "none"
    /\ route = "none"
    /\ x_api_key = None
    /\ authorization = None
    /\ prompt_too_long = FALSE
    /\ auth = None
    /\ http_response = None
    /\ size_too_large = FALSE

InitVerify ==
    /\ InitGenIdle
    /\ InitImgIdle
    /\ InitHttpIdle
    /\ InitStore
    /\ InitCall
    /\ api_key \in Secrets
    /\ vpc = "call"
    /\ auth_result = None
    /\ required_scope = None
    /\ has_scope_ret = None
    /\ InitEstIdle
    /\ InitLoopIdle
    /\ InitTasksIdle

NextVerify ==
    \/ VerifyEnter
    \/ GetDbConnection
    \/ SelectApiKeys
    \/ SelectUser
    \/ UpdateLastUsed

SpecVerify == InitVerify /\ [][NextVerify]_vars

(***************************************************************************)
(* AuthResult.has_scope called on every scope list                         *)
(***************************************************************************)
ScopeNames == {"stories:read", "stories:write", "images:read", "images:write", "admin:all"}

RECURSIVE SeqOf(_)
SeqOf(S) == IF S = {} THEN << >>
            ELSE LET x == CHOOSE y \in S : TRUE IN <<x>> \o SeqOf(S \ {x})

ScopeLists == { SeqOf(S) : S \in SUBSET ScopeNames }

\* auth.has_scope(required_scope) on the AuthResult in auth_result
HasScopeCall ==
    /\ vpc = "none"
    /\ auth_result # None
    /\ required_scope # None
    /\ has_scope_ret = None
    /\ has_scope_ret' = Some(has_scope(auth_result[1].scopes, required_scope[1]))
    /\ UNCHANGED <<authVars, required_scope, genVars, imgVars, httpVars>>
    /\ UNCHANGED estVars
    /\ UNCHANGED <<loopVars, taskVars>>

InitScope ==
    /\ InitGenIdle
    /\ InitImgIdle
    /\ InitHttpIdle
    /\ api_keys = << >>
    /\ users = {}
    /\ database_url = FALSE
    /\ clock = 0
    /\ InitCall
    /\ api_key = << >>
    /\ vpc = "none"
    /\ \E sc \in ScopeLists : auth_result = Some(AuthResult("u1", <<"email", "u1">>, sc))
    /\ required_scope \in { Some(r) : r \in ScopeNames }
    /\ has_scope_ret = None
    /\ InitEstIdle
    /\ InitLoopIdle
    /\ InitTasksIdle

NextScope == HasScopeCall

SpecScope == InitScope /\ [][NextScope]_vars

\* C2: has_scope returns true iff the required scope is a literal member of
\* the scope set, or "admin:all" is a member, or the required scope is
\* "stories:read" and "stories:write" is a member; "stories:read" never
\* satisfies a "stories:write" requirement.
C2_HasScope ==
    has_scope_ret # None =>
        LET held == Elems(auth_result[1].scopes)
            req  == required_scope[1]
        IN  /\ has_scope_ret[1] <=>
                  \/ req \in held
                  \/ "admin:all" \in held
                  \/ req = "stories:read" /\ "stories:write" \in held
            /\ (req = "stories:write" /\ held = {"stories:read"}) => ~has_scope_ret[1]

\* witness of C2: has_scope granted "stories:read" to a holder of
\* "stories:write" alone
C2_Witness ==
    /\ has_scope_ret = Some(TRUE)
    /\ required_scope = Some("stories:read")
    /\ Elems(auth_result[1].scopes) = {"stories:write"}

(***************************************************************************)
(* Credential verification: properties                                     *)
(***************************************************************************)
Returned == vpc = "return"

\* a stored row that meets every condition the claim C1 lists for the key
RowAdmits(row, key) ==
    /\ Len(key) >= PrefixLen
    /\ row.key_prefix = SubSeq(key, 1, PrefixLen)
    /\ row.key_hash[3] = key
    /\ row.is_active
    /\ (row.expires_at = None \/ row.expires_at[1] > clock)

\* C1 as stated: verify_api_key returns an AuthResult if and only if some
\* stored record has the key's 16-character prefix, a hash that verifies the
\* key, is active and has no expiry or an expiry in the future.
C1_AsStated ==
    Returned =>
        ((auth_result # None) <=> (\E i \in DOMAIN api_keys : RowAdmits(api_keys[i], api_key)))

\* C1 amended: verify_api_key returns an AuthResult if and only if no store
\* operation ahead of the last-used update raised and the row the hash loop
\* matched (a row, among the at most 10 active rows fetched for the key's
\* 16-character prefix, whose hash verifies the key) has no expiry or an
\* expiry not earlier than now and an owner in the users table; the result
\* then carries that row's owner and scopes.  The matched row is 0 only if
\* no fetched row verifies the key.
C1_Amended ==
    Returned =>
        /\ (auth_result # None) <=>
              /\ caught = "none"
              /\ matched_key # 0
              /\ LET row == api_keys[matched_key]
                 IN  /\ (row.expires_at = None \/ row.expires_at[1] >= clock)
                     /\ row.user_id \in users
        /\ matched_key # 0 =>
              /\ matched_key \in api_key_records
              /\ api_keys[matched_key].key_hash[3] = api_key
        /\ matched_key = 0 =>
              \A i \in api_key_records : api_keys[i].key_hash[3] # api_key
        /\ \A i \in api_key_records :
              /\ api_keys[i].is_active
              /\ Len(api_key) >= PrefixLen
              /\ api_keys[i].key_prefix = SubSeq(api_key, 1, PrefixLen)
        /\ LET n == Cardinality({ i \in DOMAIN api_keys :
                         /\ api_keys[i].is_active
                         /\ api_keys[i].key_prefix = KeyPrefixOf(api_key) })
           IN  (caught = "none" /\ Len(api_key) >= PrefixLen) =>
                   Cardinality(api_key_records) = IF n < QueryLimit THEN n ELSE QueryLimit
        /\ auth_result # None =>
              /\ auth_result[1].user_id = api_keys[matched_key].user_id
              /\ auth_result[1].scopes = api_keys[matched_key].scopes

\* witness of C1: a verification that succeeded on a key whose prefix two
\* active rows share
C1_Witness ==
    /\ Returned
    /\ auth_result # None
    /\ Cardinality(api_key_records) >= 2

\* the truth value Python gives an Optional argument: None, "", [] and {} are false
Truthy(opt) ==
    /\ opt # None
    /\ CASE opt[1].k = "dict" -> DOMAIN opt[1].f # {}
         [] opt[1].k = "str"  -> opt[1].s # ""
         [] opt[1].k = "list" -> opt[1].q # << >>
         [] OTHER -> TRUE

(***************************************************************************)
(* _analyze_json_schema and _estimate_json_closing_tokens                  *)
(* (text_service.py 203-311)                                               *)
(***************************************************************************)
Analysis(depth, props, arrays, nested) ==
    [max_depth |-> depth, total_properties |-> props, array_fields |-> arrays,
     nested_objects |-> nested]

\* the counters are added up, the depths are maximised
Merge(a, b) ==
    [max_depth |-> IF a.max_depth > b.max_depth THEN a.max_depth ELSE b.max_depth,
     total_properties |-> a.total_properties + b.total_properties,
     array_fields |-> a.array_fields + b.array_fields,
     nested_objects |-> a.nested_objects + b.nested_objects]

RECURSIVE analyze_recursive(_, _), AnalyzeProps(_, _, _), AnalyzeAlternatives(_, _, _)

\* for prop_name, prop_schema in props.items() (lines 233-245)
AnalyzeProps(props, names, current_depth) ==
    IF names = {} THEN Analysis(current_depth, 0, 0, 0)
    ELSE LET name == CHOOSE n \in names : TRUE
             prop_schema == props.f[name]
             isArray == IsDict(prop_schema) /\ HasKey(prop_schema, "type")
                        /\ prop_schema.f.type = JStr("array")
             isNested == IsDict(prop_schema) /\ ~isArray /\ HasKey(prop_schema, "properties")
             own == Analysis(current_depth, 0,
                             IF isArray THEN 1 ELSE 0,
                             IF isNested THEN 1 ELSE 0)
         IN  Merge(Merge(own, analyze_recursive(prop_schema, current_depth + 1)),
                   AnalyzeProps(props, names \ {name}, current_depth))

\* for idx, sub_schema in enumerate(schema[key]) (lines 256-258)
AnalyzeAlternatives(subs, idx, current_depth) ==
    IF idx > Len(subs) THEN Analysis(current_depth, 0, 0, 0)
    ELSE Merge(analyze_recursive(subs[idx], current_depth + 1),
               AnalyzeAlternatives(subs, idx + 1, current_depth))

analyze_recursive(schema, current_depth) ==
    IF ~IsDict(schema) THEN Analysis(current_depth, 0, 0, 0)
    ELSE
      LET viaProps ==
              IF HasKey(schema, "properties")
              THEN Merge(Analysis(current_depth, Cardinality(DOMAIN schema.f.properties.f), 0, 0),
                         AnalyzeProps(schema.f.properties, DOMAIN schema.f.properties.f,
                                      current_depth))
              ELSE Analysis(current_depth, 0, 0, 0)
          viaItems ==
              IF HasKey(schema, "items")
              THEN Merge(Analysis(current_depth, 0, 1, 0),
                         analyze_recursive(schema.f.items, current_depth + 1))
              ELSE Analysis(current_depth, 0, 0, 0)
          viaKey(key) ==
              IF HasKey(schema, key)
              THEN AnalyzeAlternatives(schema.f[key].q, 1, current_depth)
              ELSE Analysis(current_depth, 0, 0, 0)
      IN  Merge(Merge(viaProps, viaItems),
                Merge(viaKey("oneOf"), Merge(viaKey("anyOf"), viaKey("allOf"))))

_analyze_json_schema(schema) == analyze_recursive(schema, 0)

\* the estimate without its ceiling
EstimateWithoutCeiling(schema) ==
    LET analysis == _analyze_json_schema(schema)
    IN  analysis.max_depth * 10 + analysis.array_fields * 5
        + analysis.nested_objects * 3 + 50

\* the estimate wrapping around at its ceiling instead of stopping there
EstimateWrappingAtCeiling(schema) ==
    LET analysis == _analyze_json_schema(schema)
    IN  (analysis.max_depth * 10 + analysis.array_fields * 5
         + analysis.nested_objects * 3 + 50) % 301

_estimate_json_closing_tokens(schema) ==
    LET analysis == _analyze_json_schema(schema)
        depth_tokens == analysis.max_depth * 10
        array_tokens == analysis.array_fields * 5
        nested_tokens == analysis.nested_objects * 3
        base_buffer == 50
        estimated_tokens == depth_tokens + array_tokens + nested_tokens + base_buffer
    IN  Min(estimated_tokens, 300)

(***************************************************************************)
(* Schemas                                                                 *)
(***************************************************************************)
SchemaEmptyDict == JDict(<< >>)

\* the example of StructuredOutputRequest (schemas/text.py 147-155)
SchemaFlat ==
    JDict([type |-> JStr("object"),
           properties |-> JDict([name |-> JDict([type |-> JStr("string")]),
                                 age  |-> JDict([type |-> JStr("integer")])])])

\* one top-level object with one property that is an array of objects
SchemaArrayOfObjects ==
    JDict([type |-> JStr("object"),
           properties |-> JDict([entries |->
               JDict([type |-> JStr("array"),
                      items |-> JDict([type |-> JStr("object"),
                                       properties |-> JDict([id |-> JDict([type |-> JStr("string")])])])])])])

JsonSchemas == {SchemaEmptyDict, SchemaFlat, SchemaArrayOfObjects}

\* an object schema that lists no properties
SchemaObject == JDict([type |-> JStr("object")])

\* one top-level object with one property that is an array of objects whose
\* item schema lists no properties
SchemaArrayOfBareObjects ==
    JDict([type |-> JStr("object"),
           properties |-> JDict([entries |->
               JDict([type |-> JStr("array"),
                      items |-> JDict([type |-> JStr("object")])])])])

\* arrays of arrays, n levels deep, of strings
RECURSIVE DeepArray(_)
DeepArray(n) ==
    IF n = 0 THEN JDict([type |-> JStr("string")])
    ELSE JDict([type |-> JStr("array"), items |-> DeepArray(n - 1)])

\* an object with k properties, each of schema S
PropertyNames == <<"a", "b", "c", "d", "e", "f", "g", "h", "i", "j", "k", "l", "m", "n", "o", "p">>
WideObject(k, S) ==
    JDict([type |-> JStr("object"),
           properties |-> JDict([n \in {PropertyNames[i] : i \in 1..k} |-> S])])

EstimatorSchemas ==
    JsonSchemas \cup {SchemaObject, SchemaArrayOfBareObjects}
        \cup {DeepArray(n) : n \in 0..MaxDeep}
        \cup {WideObject(k, DeepArray(MaxDeep)) : k \in 1..MaxWide}

\* the three ways a schema S sits one level deeper: as the only property of
\* an object, as the item schema of an array, as an alternative of anyOf
AsProperty(S) == JDict([type |-> JStr("object"), properties |-> JDict([inner |-> S])])
AsItems(S) == JDict([type |-> JStr("array"), items |-> S])
AsAlternative(S) == JDict([anyOf |-> JList(<<S>>)])
Nestings(S) == {AsProperty(S), AsItems(S), AsAlternative(S)}

(***************************************************************************)
(* The estimator called on its own                                         *)
(***************************************************************************)
\* lines 267-311: one call of _estimate_json_closing_tokens(est_schema)
EstimateCall ==
    /\ est_ret = None
    /\ est_analysis' = Some(_analyze_json_schema(est_schema))
    /\ est_ret' = Some(_estimate_json_closing_tokens(est_schema))
    /\ UNCHANGED <<est_schema, est_nest, est_prev>>
    /\ UNCHANGED <<authVars, scopeVars, genVars, imgVars, httpVars>>
    /\ UNCHANGED <<loopVars, taskVars>>

\* the caller nests the schema one level deeper for the next call
NestDeeper ==
    /\ est_ret # None
    /\ est_nest < MaxNest
    /\ est_schema' \in Nestings(est_schema)
    /\ est_nest' = est_nest + 1
    /\ est_prev' = est_ret
    /\ est_analysis' = None
    /\ est_ret' = None
    /\ UNCHANGED <<authVars, scopeVars, genVars, imgVars, httpVars>>
    /\ UNCHANGED <<loopVars, taskVars>>

InitEstimate ==
    /\ api_keys = << >>
    /\ users = {}
    /\ database_url = FALSE
    /\ clock = 0
    /\ InitCall
    /\ api_key = << >>
    /\ vpc = "none"
    /\ auth_result = None
    /\ required_scope = None
    /\ has_scope_ret = None
    /\ InitGenIdle
    /\ InitImgIdle
    /\ InitHttpIdle
    /\ est_schema \in EstimatorSchemas
    /\ est_nest = 0
    /\ est_prev = None
    /\ est_analysis = None
    /\ est_ret = None
    /\ InitLoopIdle
    /\ InitTasksIdle

NextEstimate == EstimateCall \/ NestDeeper

SpecEstimate == InitEstimate /\ [][NextEstimate]_vars

\* C12: whatever the schema, the estimator returns an integer from 50 to 300,
\* the smaller of 300 and max_depth*10 + array_fields*5 + nested_objects*3 + 50
\* over the counters of its analysis, and an object schema without content
\* gives exactly 50.
C12_EstimateRange ==
    est_ret # None =>
        LET a == est_analysis[1]
        IN  /\ est_ret[1] \in 50..300
            /\ est_ret[1] = Min(300, a.max_depth * 10 + a.array_fields * 5
                                     + a.nested_objects * 3 + 50)
            /\ est_schema \in {SchemaEmptyDict, SchemaObject} => est_ret[1] = 50

\* C12 witness: a schema whose sum exceeds the ceiling has been estimated.
C12_Witness ==
    /\ est_ret = Some(300)
    /\ est_analysis[1].max_depth * 10 + est_analysis[1].array_fields * 5
          + est_analysis[1].nested_objects * 3 + 50 > 300

\* C13: the estimate of a schema nested one level deeper is never smaller
\* than the estimate of the schema itself.
C13_MonotonicInDepth ==
    (est_prev # None /\ est_ret # None) => est_ret[1] >= est_prev[1]

\* C13 witness: a schema and the same schema one level deeper have both been
\* estimated, and the deeper one got the larger estimate.
C13_Witness ==
    /\ est_prev # None
    /\ est_ret # None
    /\ est_nest > 0
    /\ est_ret[1] > est_prev[1]

\* C14 as stated: for one top-level object whose single property is an array
\* of objects the analysis gives depth 2, one array field and one nested
\* object, and the estimate is 78.
C14_AsStated ==
    (est_schema \in {SchemaArrayOfObjects, SchemaArrayOfBareObjects} /\ est_ret # None) =>
        /\ est_analysis[1].max_depth = 2
        /\ est_analysis[1].array_fields = 1
        /\ est_analysis[1].nested_objects = 1
        /\ est_ret = Some(78)

(***************************************************************************)
(* The engine (vLLM AsyncLLMEngine.generate) and json.loads.  An output is *)
(* the text of the final RequestOutput, its token count and its finish     *)
(* reason; a call can also raise.                                          *)
(***************************************************************************)
TextJson      == "{\"name\": \"Ada\", \"age\": 36}"
TextTruncated == "{\"name\": \"Ada\", \"age\":"
TextGarbled   == "{\"name\": Ada}"

EngineFailure == [failed |-> TRUE]

EngineOutput(text, tokens, finish_reason) ==
    [failed |-> FALSE, text |-> text, tokens_used |-> tokens, finish_reason |-> finish_reason]

\* what a call given max_tokens = budget can produce
EngineOutputs(budget) ==
    { EngineOutput(TextJson, 1, Some("stop")),
      EngineOutput(TextTruncated, budget, Some("length")),
      EngineOutput(TextGarbled, 1, None) }

\* json.loads: the parsed value, or None for a JSONDecodeError
JsonLoads(text) ==
    IF text = TextJson
    THEN Some(JDict([name |-> JStr("Ada"), age |-> JNum(36)]))
    ELSE None

JsonError(text) == <<"JSONDecodeError", text>>

(***************************************************************************)
(* generate_structured (text_service.py 313-553)                           *)
(***************************************************************************)
\* lines 350-353
\* the closing buffer added whenever a schema is passed, whatever the kind
EffectiveMaxTokensForAnyKind(gtype, schema, requested) ==
    IF Truthy(schema)
    THEN requested + _estimate_json_closing_tokens(schema[1])
    ELSE requested

EffectiveMaxTokens(gtype, schema, requested) ==
    IF gtype = "json" /\ Truthy(schema)
    THEN requested + _estimate_json_closing_tokens(schema[1])
    ELSE requested

\* lines 362-375: some branch builds GuidedDecodingParams, else ValueError
GuidedParamsBuilt(gtype, schema, pattern, choice, gram) ==
    \/ gtype = "json" /\ Truthy(schema)
    \/ gtype = "regex" /\ Truthy(pattern)
    \/ gtype = "choice" /\ Truthy(choice)
    \/ gtype = "grammar" /\ Truthy(gram)

\* lines 384-391: int(effective_max_tokens * 1.2) from the first retry on;
\* the float product truncates to (6 * effective) div 5
CurrentMaxTokens(effective, count) ==
    IF count = 0 THEN effective ELSE (effective * 6) \div 5

\* line 401
\* an identifier that names the task only
RequestIdOfTask(task, count) == <<"structured", task>>

RequestId(task, count) == <<"structured", task, count>>

\* line 381
LoopContinues(count, retries) == count <= retries

\* a retry limit that gives up one attempt early
RetriesExhaustedEarly(count, retries) == count + 1 >= retries

\* line 511
RetriesExhausted(count, retries) == count >= retries

\* a parse that is also applied to pattern-constrained output
ParsesOutputOfRegex(gtype) == gtype \in {"json", "regex"}

\* line 435
ParsesOutput(gtype) == gtype = "json"

FinishReason(out) == IF out.finish_reason # None THEN out.finish_reason[1] ELSE "unknown"

\* a success record that counts attempts from one
SuccessResultCountingFromOne(out, parsed, count) ==
    [output |-> out.text, parsed_output |-> parsed, tokens_used |-> out.tokens_used,
     finish_reason |-> FinishReason(out), is_valid |-> TRUE, retry_count |-> count + 1,
     error |-> None]

\* lines 471-479
SuccessResult(out, parsed, count) ==
    [output |-> out.text, parsed_output |-> parsed, tokens_used |-> out.tokens_used,
     finish_reason |-> FinishReason(out), is_valid |-> TRUE, retry_count |-> count,
     error |-> None]

\* lines 518-527
InvalidResult(out, count, err) ==
    [output |-> out.text, parsed_output |-> None, tokens_used |-> out.tokens_used,
     finish_reason |-> FinishReason(out), is_valid |-> FALSE, retry_count |-> count,
     error |-> Some(err)]

\* lines 541-549
PlainResult(out) ==
    [output |-> out.text, parsed_output |-> None, tokens_used |-> out.tokens_used,
     finish_reason |-> FinishReason(out), is_valid |-> TRUE, retry_count |-> 0,
     error |-> None]

GenRaise(exc) ==
    /\ gen_exc' = exc
    /\ gpc' = "raise"

\* lines 344-379: initialize on first use, the closing buffer, the guided params
GenStart ==
    /\ gpc = "start"
    /\ \/ \* initialize() raises
          /\ ~text_initialized
          /\ GenRaise("InitError")
          /\ UNCHANGED <<text_initialized, effective_max_tokens>>
       \/ /\ text_initialized' = TRUE
          /\ effective_max_tokens' = EffectiveMaxTokens(guided_type, json_schema, max_tokens)
          /\ IF GuidedParamsBuilt(guided_type, json_schema, regex_pattern, choices, grammar)
             THEN gpc' = "loop" /\ UNCHANGED gen_exc
             ELSE GenRaise("ValueError")
    /\ UNCHANGED <<genArgs, retry_count, last_error, engine_calls, engine_outs, gen_ret>>
    /\ UNCHANGED <<authVars, scopeVars, imgVars, httpVars>>
    /\ UNCHANGED estVars
    /\ UNCHANGED <<loopVars, taskVars>>

\* lines 381-407: the loop test and the call of engine.generate
\* an attempt that is also started while the previous engine call is running
GenAttemptSpeculative ==
    /\ gpc \in {"loop", "engine"}
    /\ IF LoopContinues(retry_count, max_retries)
       THEN /\ engine_calls' = Append(engine_calls,
                  [request_id |-> RequestId("Task-1", retry_count),
                   max_tokens |-> CurrentMaxTokens(effective_max_tokens, retry_count)])
            /\ gpc' = "engine"
       ELSE /\ gpc' = "return"
            /\ UNCHANGED engine_calls
    /\ UNCHANGED <<text_initialized, genArgs, effective_max_tokens, retry_count, last_error,
                   engine_outs, gen_ret, gen_exc>>
    /\ UNCHANGED <<authVars, scopeVars, imgVars, httpVars>>
    /\ UNCHANGED estVars
    /\ UNCHANGED <<loopVars, taskVars>>

GenAttempt ==
    /\ gpc = "loop"
    /\ IF LoopContinues(retry_count, max_retries)
       THEN /\ engine_calls' = Append(engine_calls,
                  [request_id |-> RequestId("Task-1", retry_count),
                   max_tokens |-> CurrentMaxTokens(effective_max_tokens, retry_count)])
            /\ gpc' = "engine"
       ELSE \* the loop ends and the function falls off its end: it returns None
            /\ gpc' = "return"
            /\ UNCHANGED engine_calls
    /\ UNCHANGED <<text_initialized, genArgs, effective_max_tokens, retry_count, last_error,
                   engine_outs, gen_ret, gen_exc>>
    /\ UNCHANGED <<authVars, scopeVars, imgVars, httpVars>>
    /\ UNCHANGED estVars
    /\ UNCHANGED <<loopVars, taskVars>>

\* a handler that takes an engine failure for one more failed attempt
OnEngineErrorRetry ==
    /\ engine_outs' = Append(engine_outs, EngineFailure)
    /\ gpc' = "loop"
    /\ UNCHANGED <<retry_count, last_error, gen_ret, gen_exc>>

\* the engine raises: the except clause logs and re-raises (lines 551-553)
OnEngineError ==
    /\ engine_outs' = Append(engine_outs, EngineFailure)
    /\ GenRaise("EngineError")
    /\ UNCHANGED <<retry_count, last_error, gen_ret>>

\* lines 409-549: the final output, the parse and the decision
OnEngineOutput(out) ==
    /\ engine_outs' = Append(engine_outs, out)
    /\ UNCHANGED gen_exc
    /\ IF ParsesOutput(guided_type)
       THEN IF JsonLoads(out.text) # None
            THEN /\ gen_ret' = Some(SuccessResult(out, JsonLoads(out.text), retry_count))
                 /\ gpc' = "return"
                 /\ UNCHANGED <<retry_count, last_error>>
            ELSE /\ last_error' = Some(JsonError(out.text))
                 /\ IF RetriesExhausted(retry_count, max_retries)
                    THEN /\ gen_ret' = Some(InvalidResult(out, retry_count, JsonError(out.text)))
                         /\ gpc' = "return"
                         /\ UNCHANGED retry_count
                    ELSE /\ retry_count' = retry_count + 1
                         /\ gpc' = "loop"
                         /\ UNCHANGED gen_ret
       ELSE /\ gen_ret' = Some(PlainResult(out))
            /\ gpc' = "return"
            /\ UNCHANGED <<retry_count, last_error>>

GenEngineReturns ==
    /\ gpc = "engine"
    /\ \/ OnEngineError
       \/ \E out \in EngineOutputs(engine_calls[Len(engine_calls)].max_tokens) :
             OnEngineOutput(out)
    /\ UNCHANGED <<text_initialized, genArgs, effective_max_tokens, engine_calls>>
    /\ UNCHANGED <<authVars, scopeVars, imgVars, httpVars>>
    /\ UNCHANGED estVars
    /\ UNCHANGED <<loopVars, taskVars>>

OptionalSchemas == {None} \cup { Some(sc) : sc \in JsonSchemas }
OptionalPatterns == {None, Some(JStr("[0-9]+"))}
OptionalChoices == {None, Some(JList(<<"yes", "no">>))}
OptionalGrammars == {None, Some(JStr("root ::= item"))}

\* a direct call of generate_structured, as tests/test_large_json_generation.py makes
InitText ==
    /\ InitImgIdle
    /\ InitHttpIdle
    /\ api_keys = << >>
    /\ users = {}
    /\ database_url = FALSE
    /\ clock = 0
    /\ InitCall
    /\ api_key = << >>
    /\ vpc = "none"
    /\ auth_result = None
    /\ required_scope = None
    /\ has_scope_ret = None
    /\ text_initialized = FALSE
    /\ gpc = "start"
    /\ guided_type \in {"json", "regex", "choice", "grammar"}
    /\ json_schema \in OptionalSchemas
    /\ regex_pattern \in OptionalPatterns
    /\ choices \in OptionalChoices
    /\ grammar \in OptionalGrammars
    /\ max_tokens \in {1, 2048}
    /\ max_retries \in 0..MaxRetries
    /\ effective_max_tokens = 0
    /\ retry_count = 0
    /\ last_error = None
    /\ engine_calls = << >>
    /\ engine_outs = << >>
    /\ gen_ret = None
    /\ gen_exc = "none"
    /\ InitEstIdle
    /\ InitLoopIdle
    /\ InitTasksIdle

NextText ==
    \/ GenStart
    \/ GenAttempt
    \/ GenEngineReturns

SpecText == InitText /\ [][NextText]_vars

\* a direct call of generate_structured: max_retries is an int parameter
\* that nothing validates (lines 313-325), so it may be negative
InitTextAnyRetries ==
    /\ InitImgIdle
    /\ InitHttpIdle
    /\ api_keys = << >>
    /\ users = {}
    /\ database_url = FALSE
    /\ clock = 0
    /\ InitCall
    /\ api_key = << >>
    /\ vpc = "none"
    /\ auth_result = None
    /\ required_scope = None
    /\ has_scope_ret = None
    /\ text_initialized = FALSE
    /\ gpc = "start"
    /\ guided_type \in {"json", "regex", "choice", "grammar"}
    /\ json_schema \in OptionalSchemas
    /\ regex_pattern \in OptionalPatterns
    /\ choices \in OptionalChoices
    /\ grammar \in OptionalGrammars
    /\ max_tokens \in {1, 2048}
    /\ max_retries \in -1..MaxRetries
    /\ effective_max_tokens = 0
    /\ retry_count = 0
    /\ last_error = None
    /\ engine_calls = << >>
    /\ engine_outs = << >>
    /\ gen_ret = None
    /\ gen_exc = "none"
    /\ InitEstIdle
    /\ InitLoopIdle
    /\ InitTasksIdle

SpecTextAnyRetries == InitTextAnyRetries /\ [][NextText]_vars

(***************************************************************************)
(* QwenImageComfyUIAPIService.generate (image_service_comfyui_api.py       *)
(* 159-234), _queue_prompt (255-271) and _wait_for_completion (273-320).   *)
(* Time is counted in whole seconds; an HTTP call to the backend takes     *)
(* between 0 and MaxLatency seconds.                                       *)
(***************************************************************************)
Latencies == 0..MaxLatency

BackendResponse(endpoint, ok) == [endpoint |-> endpoint, ok |-> ok]

ImgRaise(exc) ==
    /\ img_exc' = exc
    /\ ipc' = "raise"

\* lines 184-205: initialize() on first use (GET /system_stats, 129-157),
\* then the seed and the workflow
ImgGenerateStart ==
    /\ ipc = "start"
    /\ IF image_initialized
       THEN /\ ipc' = "queue"
            /\ UNCHANGED <<image_initialized, backend_response, img_exc>>
       ELSE \E ok \in BOOLEAN :
               /\ backend_response' = Some(BackendResponse("system_stats", ok))
               /\ IF ok
                  THEN /\ image_initialized' = TRUE
                       /\ ipc' = "queue"
                       /\ UNCHANGED img_exc
                  ELSE /\ ImgRaise("HTTPError")
                       /\ UNCHANGED image_initialized
    /\ UNCHANGED <<now, start_time, prompt_id, history, img_ret>>
    /\ UNCHANGED <<authVars, scopeVars, genVars, httpVars>>
    /\ UNCHANGED estVars
    /\ UNCHANGED <<loopVars, taskVars>>
    /\ UNCHANGED sleep_start

\* lines 208 and 255-271: POST /prompt; raise_for_status or the transport raises
QueuePrompt ==
    /\ ipc = "queue"
    /\ \E lat \in Latencies, ok \in BOOLEAN :
          /\ now' = now + lat
          /\ backend_response' = Some(BackendResponse("prompt", ok))
          /\ IF ok
             THEN /\ prompt_id' = Some("job-1")
                  /\ ipc' = "wait"
                  /\ UNCHANGED img_exc
             ELSE /\ ImgRaise("HTTPError")
                  /\ UNCHANGED prompt_id
    /\ UNCHANGED <<image_initialized, start_time, history, img_ret>>
    /\ UNCHANGED <<authVars, scopeVars, genVars, httpVars>>
    /\ UNCHANGED estVars
    /\ UNCHANGED <<loopVars, taskVars>>
    /\ UNCHANGED sleep_start

\* lines 212 and 275
WaitForCompletion ==
    /\ ipc = "wait"
    /\ start_time' = now
    /\ ipc' = "check"
    /\ UNCHANGED <<image_initialized, now, prompt_id, backend_response, history, img_ret, img_exc>>
    /\ UNCHANGED <<authVars, scopeVars, genVars, httpVars>>
    /\ UNCHANGED estVars
    /\ UNCHANGED <<loopVars, taskVars>>
    /\ UNCHANGED sleep_start

\* line 279
DeadlinePassed(t, start, timeout) == t - start > timeout

\* a deadline test that notes the timeout and goes on polling
WaitCheckDeadlineKeepsPolling ==
    /\ ipc = "check"
    /\ IF DeadlinePassed(now, start_time, WaitTimeout)
       THEN img_exc' = "TimeoutError" /\ ipc' = "poll"
       ELSE ipc' = "poll" /\ UNCHANGED img_exc
    /\ UNCHANGED <<image_initialized, now, start_time, prompt_id, backend_response, history, img_ret>>
    /\ UNCHANGED <<authVars, scopeVars, genVars, httpVars>>
    /\ UNCHANGED estVars
    /\ UNCHANGED <<loopVars, taskVars>>
    /\ UNCHANGED sleep_start

\* lines 278-280: the test at the top of the loop
WaitCheckDeadline ==
    /\ ipc = "check"
    /\ IF DeadlinePassed(now, start_time, WaitTimeout)
       THEN ImgRaise("TimeoutError")
       ELSE ipc' = "poll" /\ UNCHANGED img_exc
    /\ UNCHANGED <<image_initialized, now, start_time, prompt_id, backend_response, history, img_ret>>
    /\ UNCHANGED <<authVars, scopeVars, genVars, httpVars>>
    /\ UNCHANGED estVars
    /\ UNCHANGED <<loopVars, taskVars>>
    /\ UNCHANGED sleep_start

\* what GET /history/{prompt_id} can answer for the job: no entry, an entry
\* with an output that lists an image, an entry none of whose outputs has
\* the key "images", an entry whose first output with that key lists nothing
HistoryAnswers == {"absent", "images", "no_images", "empty_images"}

\* a job without images reported as a job that did not complete in time
NoImagesAsTimeout == "TimeoutError"

\* line 317: raise RuntimeError("No images found in workflow output")
NoImagesError == "RuntimeError"

\* lines 283-317: GET /history/{prompt_id}; the job is absent, or present
\* with or without an output that lists images; output["images"][0] of an
\* empty list (line 294) is an IndexError
WaitPollHistory ==
    /\ ipc = "poll"
    /\ \E lat \in Latencies, outcome \in {"failed"} \cup HistoryAnswers :
          /\ now' = now + lat
          /\ backend_response' = Some(BackendResponse("history", outcome # "failed"))
          /\ history' = IF outcome = "failed" THEN history ELSE Some(outcome)
          /\ sleep_start' = IF outcome = "absent" THEN now' ELSE sleep_start
          /\ IF outcome = "failed" THEN ImgRaise("HTTPError")
             ELSE IF outcome = "absent" THEN ipc' = "sleep" /\ UNCHANGED img_exc
             ELSE IF outcome = "images" THEN ipc' = "view" /\ UNCHANGED img_exc
             ELSE IF outcome = "empty_images" THEN ImgRaise("IndexError")
             ELSE ImgRaise(NoImagesError)
    /\ UNCHANGED <<image_initialized, start_time, prompt_id, img_ret>>
    /\ UNCHANGED <<authVars, scopeVars, genVars, httpVars>>
    /\ UNCHANGED estVars
    /\ UNCHANGED <<loopVars, taskVars>>

\* lines 306-315 and 215-230: GET /view, the image, the returned dict
WaitFetchImage ==
    /\ ipc = "view"
    /\ \E lat \in Latencies, ok \in BOOLEAN :
          /\ now' = now + lat
          /\ backend_response' = Some(BackendResponse("view", ok))
          /\ IF ok
             THEN /\ img_ret' = Some([image_url |-> <<"data:image/png;base64", prompt_id[1]>>])
                  /\ ipc' = "return"
                  /\ UNCHANGED img_exc
             ELSE /\ ImgRaise("HTTPError")
                  /\ UNCHANGED img_ret
    /\ UNCHANGED <<image_initialized, start_time, prompt_id, history>>
    /\ UNCHANGED <<authVars, scopeVars, genVars, httpVars>>
    /\ UNCHANGED estVars
    /\ UNCHANGED <<loopVars, taskVars>>
    /\ UNCHANGED sleep_start

\* a sleep that returns at once, without the clock moving
WaitSleepWithoutDelay ==
    /\ ipc = "sleep"
    /\ now' = now
    /\ ipc' = "check"
    /\ UNCHANGED <<image_initialized, start_time, prompt_id, backend_response, history, img_ret, img_exc>>
    /\ UNCHANGED <<authVars, scopeVars, genVars, httpVars>>
    /\ UNCHANGED estVars
    /\ UNCHANGED <<loopVars, taskVars>>
    /\ UNCHANGED sleep_start

\* line 320: asyncio.sleep(1.0)
WaitSleep ==
    /\ ipc = "sleep"
    /\ now' = IF now < sleep_start + PollInterval THEN sleep_start + PollInterval ELSE now
    /\ ipc' = "check"
    /\ UNCHANGED <<image_initialized, start_time, prompt_id, backend_response, history, img_ret, img_exc>>
    /\ UNCHANGED <<authVars, scopeVars, genVars, httpVars>>
    /\ UNCHANGED estVars
    /\ UNCHANGED <<loopVars, taskVars>>
    /\ UNCHANGED sleep_start

\* one call of generate on the service instance
InitImage ==
    /\ InitGenIdle
    /\ InitHttpIdle
    /\ api_keys = << >>
    /\ users = {}
    /\ database_url = FALSE
    /\ clock = 0
    /\ InitCall
    /\ api_key = << >>
    /\ vpc = "none"
    /\ auth_result = None
    /\ required_scope = None
    /\ has_scope_ret = None
    /\ image_initialized \in BOOLEAN
    /\ ipc = "start"
    /\ now = 0
    /\ start_time = 0
    /\ prompt_id = None
    /\ backend_response = None
    /\ history = None
    /\ img_ret = None
    /\ img_exc = "none"
    /\ InitEstIdle
    /\ InitLoopIdle
    /\ InitTasksIdle
    /\ sleep_start = 0

NextImage ==
    \/ ImgGenerateStart
    \/ QueuePrompt
    \/ WaitForCompletion
    \/ WaitCheckDeadline
    \/ WaitPollHistory
    \/ WaitFetchImage
    \/ WaitSleep

SpecImage == InitImage /\ [][NextImage]_vars

\* the call is a coroutine the event loop keeps running: every awaited
\* backend call returns or raises (httpx timeouts of 10 and 30 seconds) and
\* every sleep ends, so a step that can be taken is taken
SpecImageLive == SpecImage /\ WF_vars(NextImage)

\* C7 as stated: for a job that never appears in history, whatever the
\* latency of the polls, the timeout failure is reported at a time t with
\* deadline <= t <= deadline + one poll interval, the deadline being
\* timeout seconds after the wait began.
C7_AsStated ==
    (ipc = "raise" /\ img_exc = "TimeoutError") =>
        /\ start_time + WaitTimeout <= now
        /\ now <= start_time + WaitTimeout + PollInterval

\* C11: a job found in history whose outputs hold no image ends the call
\* with a failure of its own kind, neither the timeout failure nor a
\* transport failure: the "no images" failure when no output lists images;
\* and the timeout failure is raised only for a job that no poll found in
\* history.
C11_FailureKinds ==
    /\ (history \in {Some("no_images"), Some("empty_images")}) =>
          /\ ipc = "raise"
          /\ img_exc \notin {"TimeoutError", "HTTPError", "none"}
          /\ history = Some("no_images") => img_exc = "RuntimeError"
    /\ img_exc = "TimeoutError" => history = Some("absent")
    /\ img_exc = "RuntimeError" => history = Some("no_images")

\* witness of C11: more than a poll interval into the wait the job was found
\* with outputs that list no image, and the call raised
C11_Witness ==
    /\ history = Some("no_images")
    /\ ipc = "raise"
    /\ now - start_time > PollInterval

(***************************************************************************)
(* Either service called directly                                          *)
(***************************************************************************)
InitService == InitText \/ InitImage

NextService == NextText \/ NextImage

SpecService == InitService /\ [][NextService]_vars

(***************************************************************************)
(* Two tasks on one asyncio event loop: a task that runs verify_api_key    *)
(* or image generation, and the task of a sibling request.  A task keeps   *)
(* the loop's thread from one await that suspends it to the next.          *)
(***************************************************************************)
\* auth.py 65-169: the body of verify_api_key has no await; psycopg2.connect,
\* cursor.execute, conn.commit and bcrypt.checkpw are synchronous calls, so
\* the task keeps the thread from its first statement to its return
VerifyHoldsLoop == vpc \in {"connect", "select_keys", "select_user", "update"}

\* a wait that sleeps with the thread held
ImageHoldsLoopBusyWaiting == ipc \in {"wait", "check", "sleep"}

\* image_service_comfyui_api.py 255-320: the task is suspended at
\* await client.post (263), await client.get (283, 306) and
\* await asyncio.sleep (320); it keeps the thread in between
ImageHoldsLoop == ipc \in {"wait", "check"}

\* the event loop runs the sibling's task when no other task keeps its thread
SiblingRuns ==
    /\ sibling_pc = "ready"
    /\ ~VerifyHoldsLoop
    /\ ~ImageHoldsLoop
    /\ \E d \in Latencies : now' = now + d
    /\ sibling_pc' = "done"
    /\ sibling_ran_at' = Some(<<vpc, ipc>>)
    /\ UNCHANGED <<image_initialized, ipc, start_time, prompt_id, backend_response, history,
                   sleep_start, img_ret, img_exc>>
    /\ UNCHANGED <<authVars, scopeVars, genVars, httpVars, estVars, taskVars>>

\* a request's task about to call verify_api_key, and a sibling
InitLoopVerify ==
    /\ InitGenIdle
    /\ InitImgIdle
    /\ InitHttpIdle
    /\ InitEstIdle
    /\ api_keys \in HttpTables
    /\ users \in UserTables
    /\ database_url \in BOOLEAN
    /\ clock = 0
    /\ InitCall
    /\ api_key \in Secrets
    /\ vpc = "call"
    /\ auth_result = None
    /\ required_scope = None
    /\ has_scope_ret = None
    /\ sibling_pc = "ready"
    /\ sibling_ran_at = None
    /\ InitTasksIdle

\* a request's task about to call generate on the image service, and a sibling
InitLoopImage ==
    /\ InitGenIdle
    /\ InitHttpIdle
    /\ InitEstIdle
    /\ api_keys = << >>
    /\ users = {}
    /\ database_url = FALSE
    /\ clock = 0
    /\ InitCall
    /\ api_key = << >>
    /\ vpc = "none"
    /\ auth_result = None
    /\ required_scope = None
    /\ has_scope_ret = None
    /\ image_initialized \in BOOLEAN
    /\ ipc = "start"
    /\ now = 0
    /\ start_time = 0
    /\ prompt_id = None
    /\ backend_response = None
    /\ history = None
    /\ sleep_start = 0
    /\ img_ret = None
    /\ img_exc = "none"
    /\ sibling_pc = "ready"
    /\ sibling_ran_at = None
    /\ InitTasksIdle

InitLoop == InitLoopVerify \/ InitLoopImage

NextLoop == NextVerify \/ NextImage \/ SiblingRuns

SpecLoop == InitLoop /\ [][NextLoop]_vars

(***************************************************************************)
(* Requests handled concurrently.  Each request runs generate or           *)
(* generate_structured in a task of its own on the one event loop; the     *)
(* arguments and local variables of a call belong to its task, the service *)
(* instances (their _initialized flags, workflow_template) and the backend *)
(* are shared.  A step is the code a task runs between two awaits.  The    *)
(* clock is left out: the deadline test of the wait can go either way.     *)
(***************************************************************************)
Tasks == {"Task-1", "Task-2"}

\* json.loads(json.dumps(value)): the value is rebuilt, container by container
RECURSIVE DeepCopy(_)
DeepCopy(value) ==
    IF value.k = "dict" THEN JDict([key \in DOMAIN value.f |-> DeepCopy(value.f[key])])
    ELSE IF value.k = "list" THEN JList([i \in DOMAIN value.q |-> DeepCopy(value.q[i])])
    ELSE value

\* workflow[node]["inputs"][field] = value
SetInput(workflow, node, field, value) ==
    JDict([workflow.f EXCEPT ![node] =
              JDict([@.f EXCEPT !.inputs = JDict([@.f EXCEPT ![field] = value])])])

\* a preparation that also names the saved file after the prompt
PrepareWorkflowNamingFile(template, prompt, negative_prompt, width, height, num_steps, cfg, seed) ==
    LET w0 == DeepCopy(template)
        w1 == SetInput(w0, "6", "text", JStr(prompt))
        w2 == SetInput(w1, "7", "text", JStr(negative_prompt))
        w3 == SetInput(w2, "3", "seed", JNum(seed))
        w4 == SetInput(w3, "3", "steps", JNum(num_steps))
        w5 == SetInput(w4, "3", "cfg", JFloat(cfg))
        w6 == SetInput(w5, "58", "width", JNum(width))
        w7 == SetInput(w6, "58", "height", JNum(height))
    IN  SetInput(w7, "60", "filename_prefix", JStr(prompt))

\* _prepare_workflow, lines 236-253
_prepare_workflow(template, prompt, negative_prompt, width, height, num_steps, cfg, seed) ==
    LET w0 == DeepCopy(template)
        w1 == SetInput(w0, "6", "text", JStr(prompt))
        w2 == SetInput(w1, "7", "text", JStr(negative_prompt))
        w3 == SetInput(w2, "3", "seed", JNum(seed))
        w4 == SetInput(w3, "3", "steps", JNum(num_steps))
        w5 == SetInput(w4, "3", "cfg", JFloat(cfg))
        w6 == SetInput(w5, "58", "width", JNum(width))
    IN  SetInput(w6, "58", "height", JNum(height))

\* the arguments of a call of generate; guidance_scale in tenths
ImageRequest(prompt, negative_prompt, width, height, num_steps, guidance, seed) ==
    [prompt |-> prompt, negative_prompt |-> negative_prompt, width |-> width,
     height |-> height, num_inference_steps |-> num_steps, guidance_scale |-> guidance,
     seed |-> seed]

ImageRequests ==
    { ImageRequest("a red fox", Some("blurry"), 1664, 928, 8, 35, Some(7)),
      ImageRequest("a blue whale", None, 1140, 1472, 4, 10, None) }

\* random.randint(0, 2**32 - 1), line 194: the least seed and a large one
RandomSeeds == {0, 2147483647}

\* the arguments of a call of generate_structured
TextRequest(requested, retries) ==
    [guided_type |-> "json", json_schema |-> Some(SchemaFlat), regex_pattern |-> None,
     choices |-> None, grammar |-> None, max_tokens |-> requested, max_retries |-> retries]

TextRequests == { TextRequest(m, r) : m \in {1024, 2048}, r \in 0..MaxRetries }

\* a task at the start of its call, with its locals unset
NewTask(kind, args) ==
    [kind |-> kind, pc |-> "start", args |-> args,
     seed |-> None, workflow |-> None, prompt_id |-> None, polled |-> {},
     effective_max_tokens |-> 0, retry_count |-> 0, calls |-> << >>, outs |-> << >>,
     ret |-> None, exc |-> "none"]

NewTasks ==
    { NewTask("image", a) : a \in ImageRequests } \cup { NewTask("text", a) : a \in TextRequests }

\* the prompt_id the backend gives the n-th job it accepts
JobId(n) == <<"job", n>>

\* what a step of a task leaves alone
TaskFrame ==
    /\ UNCHANGED <<ipc, now, start_time, prompt_id, backend_response, history, sleep_start,
                   img_ret, img_exc>>
    /\ UNCHANGED <<gpc, genArgs, effective_max_tokens, retry_count, last_error, engine_calls,
                   engine_outs, gen_ret, gen_exc>>
    /\ UNCHANGED <<authVars, scopeVars, httpVars, estVars, loopVars>>

TaskRaise(t, exc) == tasks' = [tasks EXCEPT ![t].pc = "raise", ![t].exc = exc]

\* generate, lines 184-185: if not self._initialized: await self.initialize()
TaskImageStart(t) ==
    /\ tasks[t].kind = "image"
    /\ tasks[t].pc = "start"
    /\ tasks' = [tasks EXCEPT ![t].pc = IF image_initialized THEN "prepare" ELSE "system_stats"]
    /\ UNCHANGED <<image_initialized, text_initialized, workflow_template, backend_queue>>
    /\ TaskFrame

\* initialize, lines 139-151: GET /system_stats answers or fails
TaskImageInitialize(t) ==
    /\ tasks[t].kind = "image"
    /\ tasks[t].pc = "system_stats"
    /\ \E ok \in BOOLEAN :
          IF ok
          THEN /\ image_initialized' = TRUE
               /\ tasks' = [tasks EXCEPT ![t].pc = "prepare"]
          ELSE /\ TaskRaise(t, "HTTPError")
               /\ UNCHANGED image_initialized
    /\ UNCHANGED <<text_initialized, workflow_template, backend_queue>>
    /\ TaskFrame

\* a preparation that edits the shared template itself instead of a copy
TaskPrepareWorkflowInPlace(t) ==
    /\ tasks[t].kind = "image"
    /\ tasks[t].pc = "prepare"
    /\ \E seed \in IF tasks[t].args.seed = None THEN RandomSeeds ELSE {tasks[t].args.seed[1]} :
          LET a == tasks[t].args
              w == _prepare_workflow(workflow_template, a.prompt,
                       IF a.negative_prompt = None THEN "" ELSE a.negative_prompt[1],
                       a.width, a.height, a.num_inference_steps, a.guidance_scale, seed)
          IN  /\ workflow_template' = w
              /\ tasks' = [tasks EXCEPT ![t].seed = Some(seed), ![t].workflow = Some(w),
                                        ![t].pc = "queue"]
    /\ UNCHANGED <<image_initialized, text_initialized, backend_queue>>
    /\ TaskFrame

\* generate, lines 192-205: the seed and the workflow of the request
TaskPrepareWorkflow(t) ==
    /\ tasks[t].kind = "image"
    /\ tasks[t].pc = "prepare"
    /\ \E seed \in IF tasks[t].args.seed = None THEN RandomSeeds ELSE {tasks[t].args.seed[1]} :
          LET a == tasks[t].args
              w == _prepare_workflow(workflow_template, a.prompt,
                       IF a.negative_prompt = None THEN "" ELSE a.negative_prompt[1],
                       a.width, a.height, a.num_inference_steps, a.guidance_scale, seed)
          IN  tasks' = [tasks EXCEPT ![t].seed = Some(seed), ![t].workflow = Some(w),
                                     ![t].pc = "queue"]
    /\ UNCHANGED <<image_initialized, text_initialized, workflow_template, backend_queue>>
    /\ TaskFrame

\* _queue_prompt, lines 255-271: POST /prompt with the workflow; the backend
\* accepts the job and names it, or the call fails
TaskQueuePrompt(t) ==
    /\ tasks[t].kind = "image"
    /\ tasks[t].pc = "queue"
    /\ \E ok \in BOOLEAN :
          IF ok
          THEN /\ backend_queue' = Append(backend_queue, tasks[t].workflow[1])
               /\ tasks' = [tasks EXCEPT ![t].prompt_id = Some(JobId(Len(backend_queue) + 1)),
                                         ![t].pc = "poll"]
          ELSE /\ TaskRaise(t, "HTTPError")
               /\ UNCHANGED backend_queue
    /\ UNCHANGED <<image_initialized, text_initialized, workflow_template>>
    /\ TaskFrame

\* _wait_for_completion, lines 278-320: the deadline test, then
\* GET /history/{prompt_id} and what it says of the job; an absent job is
\* polled again after the sleep
TaskPollHistory(t) ==
    /\ tasks[t].kind = "image"
    /\ tasks[t].pc = "poll"
    /\ \/ TaskRaise(t, "TimeoutError")
       \/ \E outcome \in {"failed"} \cup HistoryAnswers :
             tasks' = [tasks EXCEPT
                 ![t].polled = @ \cup {tasks[t].prompt_id[1]},
                 ![t].pc = IF outcome = "absent" THEN "poll"
                           ELSE IF outcome = "images" THEN "view"
                           ELSE "raise",
                 ![t].exc = IF outcome = "failed" THEN "HTTPError"
                            ELSE IF outcome = "empty_images" THEN "IndexError"
                            ELSE IF outcome = "no_images" THEN NoImagesError
                            ELSE @]
    /\ UNCHANGED <<image_initialized, text_initialized, workflow_template, backend_queue>>
    /\ TaskFrame

\* lines 306-315 and 215-230: GET /view for the job's image, the returned dict
TaskFetchImage(t) ==
    /\ tasks[t].kind = "image"
    /\ tasks[t].pc = "view"
    /\ \E ok \in BOOLEAN :
          IF ok
          THEN tasks' = [tasks EXCEPT
                   ![t].ret = Some([image_of |-> tasks[t].prompt_id[1],
                                    seed |-> tasks[t].seed[1],
                                    num_inference_steps |-> tasks[t].args.num_inference_steps]),
                   ![t].pc = "return"]
          ELSE TaskRaise(t, "HTTPError")
    /\ UNCHANGED <<image_initialized, text_initialized, workflow_template, backend_queue>>
    /\ TaskFrame

\* generate_structured, lines 344-379: initialize (no await in it), the
\* closing buffer, the guided params
TaskGenStart(t) ==
    /\ tasks[t].kind = "text"
    /\ tasks[t].pc = "start"
    /\ \/ /\ ~text_initialized
          /\ TaskRaise(t, "InitError")
          /\ UNCHANGED text_initialized
       \/ LET a == tasks[t].args
          IN  /\ text_initialized' = TRUE
              /\ IF GuidedParamsBuilt(a.guided_type, a.json_schema, a.regex_pattern,
                                      a.choices, a.grammar)
                 THEN tasks' = [tasks EXCEPT
                          ![t].effective_max_tokens =
                              EffectiveMaxTokens(a.guided_type, a.json_schema, a.max_tokens),
                          ![t].pc = "loop"]
                 ELSE TaskRaise(t, "ValueError")
    /\ UNCHANGED <<image_initialized, workflow_template, backend_queue>>
    /\ TaskFrame

\* lines 381-407: the loop test and the call of engine.generate
TaskGenAttempt(t) ==
    /\ tasks[t].kind = "text"
    /\ tasks[t].pc = "loop"
    /\ IF LoopContinues(tasks[t].retry_count, tasks[t].args.max_retries)
       THEN tasks' = [tasks EXCEPT
                ![t].calls = Append(@,
                    [request_id |-> RequestId(t, tasks[t].retry_count),
                     max_tokens |-> CurrentMaxTokens(tasks[t].effective_max_tokens,
                                                     tasks[t].retry_count)]),
                ![t].pc = "engine"]
       ELSE tasks' = [tasks EXCEPT ![t].pc = "return"]
    /\ UNCHANGED <<image_initialized, text_initialized, workflow_template, backend_queue>>
    /\ TaskFrame

\* lines 403-553: the engine raises, or its final output is parsed and the
\* call returns or goes round the loop again
TaskGenEngineReturns(t) ==
    /\ tasks[t].kind = "text"
    /\ tasks[t].pc = "engine"
    /\ \/ tasks' = [tasks EXCEPT ![t].outs = Append(@, EngineFailure),
                                 ![t].pc = "raise", ![t].exc = "EngineError"]
       \/ \E out \in EngineOutputs(tasks[t].calls[Len(tasks[t].calls)].max_tokens) :
             IF ~ParsesOutput(tasks[t].args.guided_type)
             THEN tasks' = [tasks EXCEPT
                      ![t].outs = Append(@, out),
                      ![t].ret = Some(PlainResult(out)),
                      ![t].pc = "return"]
             ELSE IF JsonLoads(out.text) # None
             THEN tasks' = [tasks EXCEPT
                      ![t].outs = Append(@, out),
                      ![t].ret = Some(SuccessResult(out, JsonLoads(out.text),
                                                    tasks[t].retry_count)),
                      ![t].pc = "return"]
             ELSE IF RetriesExhausted(tasks[t].retry_count, tasks[t].args.max_retries)
             THEN tasks' = [tasks EXCEPT
                      ![t].outs = Append(@, out),
                      ![t].ret = Some(InvalidResult(out, tasks[t].retry_count,
                                                    JsonError(out.text))),
                      ![t].pc = "return"]
             ELSE tasks' = [tasks EXCEPT
                      ![t].outs = Append(@, out),
                      ![t].retry_count = @ + 1,
                      ![t].pc = "loop"]
    /\ UNCHANGED <<image_initialized, text_initialized, workflow_template, backend_queue>>
    /\ TaskFrame

\* two requests arrive at the services as constructed
InitTasks ==
    /\ InitHttpIdle
    /\ InitEstIdle
    /\ InitLoopIdle
    /\ InitGenIdle
    /\ InitImgIdle
    /\ api_keys = << >>
    /\ users = {}
    /\ database_url = FALSE
    /\ clock = 0
    /\ InitCall
    /\ api_key = << >>
    /\ vpc = "none"
    /\ auth_result = None
    /\ required_scope = None
    /\ has_scope_ret = None
    /\ workflow_template = WorkflowTemplate
    /\ tasks \in [Tasks -> NewTasks]
    /\ backend_queue = << >>

NextTasks ==
    \E t \in Tasks :
        \/ TaskImageStart(t)
        \/ TaskImageInitialize(t)
        \/ TaskPrepareWorkflow(t)
        \/ TaskQueuePrompt(t)
        \/ TaskPollHistory(t)
        \/ TaskFetchImage(t)
        \/ TaskGenStart(t)
        \/ TaskGenAttempt(t)
        \/ TaskGenEngineReturns(t)

SpecTasks == InitTasks /\ [][NextTasks]_vars

(***************************************************************************)
(* The routers (routes/text_generation.py, routes/image_generation.py)     *)
(* behind the dependency require_api_key (auth.py 189-220).  A request is  *)
(* what FastAPI hands to the dependency and to the endpoint: its headers   *)
(* and a body that has been parsed and validated against the schema of the *)
(* route.                                                                  *)
(***************************************************************************)
PostRoutes == {"text/generate", "text/stream", "text/structured", "images/generate"}

ModelRoutes == {"text/models", "images/models"}

\* an endpoint behind the scope_checker that require_scope builds (auth.py 223-240)
ScopedRoutes == {"scoped"}

Routes == PostRoutes \cup ModelRoutes \cup ScopedRoutes

HttpException(status, detail) == [status |-> status, detail |-> detail]

\* auth.py 206-209 and 215-218
Unauthorized(detail) == HttpException(401, detail)

\* a scope failure reported as an authentication failure
ForbiddenAsUnauthorized(scope) ==
    HttpException(401, <<"Insufficient permissions. Required scope:", scope>>)

\* a scope failure that also lists the scopes the principal holds
ForbiddenListingHeld(scope) ==
    HttpException(403, <<"Insufficient permissions. Required scope:", scope,
                         "Held:", auth[1].scopes>>)

\* auth.py 234-237, routes/text_generation.py 37-40, routes/image_generation.py 43-46
Forbidden(scope) ==
    HttpException(403, <<"Insufficient permissions. Required scope:", scope>>)

BadRequest(detail) == HttpException(400, detail)

\* the except Exception clause of an endpoint: HTTPException(500)
ServerError(detail) == HttpException(500, detail)

Ok(body) == [status |-> 200, detail |-> body]

\* get_api_key_from_header (auth.py 172-186): only x-api-key is read
GetApiKeyFromHeader(authz, xkey) ==
    IF xkey # None /\ xkey[1] # << >> THEN xkey ELSE None

Respond(r) ==
    /\ http_response' = Some(r)
    /\ hpc' = "responded"

\* an endpoint that lets every authenticated caller through
ScopeCheckSkipped(a) == TRUE

\* if not auth.has_scope("stories:write") (text_generation.py 36, 81, 139;
\* image_generation.py 41)
HasWriteScope(a) == has_scope(a.scopes, "stories:write")

\* schemas/image.py 22-23: width and height are declared with le=2048; the
\* body of a request is validated once the dependencies have been resolved
BodyIsValid == ~(route = "images/generate" /\ size_too_large)

\* the framework's answer to a body that fails validation
UnprocessableEntity(detail) == HttpException(422, detail)

\* require_api_key, lines 203-212: no key gives 401, else verify_api_key is called
RequireApiKey ==
    /\ hpc = "dependency"
    /\ LET k == GetApiKeyFromHeader(authorization, x_api_key)
       IN  IF k = None
           THEN /\ Respond(Unauthorized("API key required"))
                /\ UNCHANGED <<vpc, api_key>>
           ELSE /\ api_key' = k[1]
                /\ vpc' = "call"
                /\ hpc' = "verifying"
                /\ UNCHANGED http_response
    /\ UNCHANGED <<route, x_api_key, authorization, prompt_too_long, size_too_large, auth>>
    /\ UNCHANGED <<storeVars, conn, api_key_records, matched_key, caught, auth_result, queries>>
    /\ UNCHANGED <<scopeVars, genVars, imgVars>>
    /\ UNCHANGED estVars
    /\ UNCHANGED <<loopVars, taskVars>>

\* require_api_key, lines 212-220: verify_api_key has returned
RequireApiKeyReturn ==
    /\ hpc = "verifying"
    /\ vpc = "return"
    /\ IF auth_result = None
       THEN /\ Respond(Unauthorized("Invalid or expired API key"))
            /\ UNCHANGED auth
       ELSE /\ auth' = auth_result
            /\ hpc' = IF BodyIsValid THEN "endpoint" ELSE "validation"
            /\ UNCHANGED http_response
    /\ UNCHANGED <<route, x_api_key, authorization, prompt_too_long, size_too_large>>
    /\ UNCHANGED <<authVars, scopeVars, genVars, imgVars>>
    /\ UNCHANGED estVars
    /\ UNCHANGED <<loopVars, taskVars>>

\* scope_checker (auth.py 232-238) and the endpoint behind it
ScopeChecker ==
    /\ hpc = "endpoint"
    /\ route \in ScopedRoutes
    /\ IF ~has_scope(auth[1].scopes, required_scope[1])
       THEN Respond(Forbidden(required_scope[1]))
       ELSE Respond(Ok("done"))
    /\ UNCHANGED <<route, x_api_key, authorization, prompt_too_long, size_too_large, auth>>
    /\ UNCHANGED <<authVars, scopeVars, genVars, imgVars>>
    /\ UNCHANGED estVars
    /\ UNCHANGED <<loopVars, taskVars>>

\* generate_text (text_generation.py 21-55): the scope, the prompt length,
\* the call of text_service.generate
GenerateText ==
    /\ hpc = "endpoint"
    /\ route = "text/generate"
    /\ IF ~HasWriteScope(auth[1]) THEN Respond(Forbidden("stories:write")) /\ UNCHANGED gpc
       ELSE IF prompt_too_long THEN Respond(BadRequest("Prompt too long")) /\ UNCHANGED gpc
       ELSE /\ gpc' = "generate"
            /\ hpc' = "service"
            /\ UNCHANGED http_response
    /\ UNCHANGED <<route, x_api_key, authorization, prompt_too_long, size_too_large, auth>>
    /\ UNCHANGED <<text_initialized, genArgs, effective_max_tokens, retry_count, last_error,
                   engine_calls, engine_outs, gen_ret, gen_exc>>
    /\ UNCHANGED <<authVars, scopeVars, imgVars>>
    /\ UNCHANGED estVars
    /\ UNCHANGED <<loopVars, taskVars>>

\* text_service.generate, lines 100-121 (generate_stream, 165-186):
\* initialize on first use, then the call of engine.generate
TextGenerateStart ==
    /\ gpc \in {"generate", "generate_stream"}
    /\ \/ \* initialize() raises
          /\ ~text_initialized
          /\ GenRaise("InitError")
          /\ UNCHANGED <<text_initialized, engine_calls>>
       \/ /\ text_initialized' = TRUE
          /\ engine_calls' = Append(engine_calls,
                [request_id |-> <<IF gpc = "generate" THEN "text" ELSE "text-stream", "Task-1">>,
                 max_tokens |-> max_tokens])
          /\ gpc' = IF gpc = "generate" THEN "generate_engine" ELSE "stream_engine"
          /\ UNCHANGED gen_exc
    /\ UNCHANGED <<genArgs, effective_max_tokens, retry_count, last_error, engine_outs, gen_ret>>
    /\ UNCHANGED <<authVars, scopeVars, imgVars, httpVars>>
    /\ UNCHANGED estVars
    /\ UNCHANGED <<loopVars, taskVars>>

\* text_service.generate, lines 119-142: the final output or the re-raised failure
TextGenerateEngineReturns ==
    /\ gpc = "generate_engine"
    /\ \/ /\ engine_outs' = Append(engine_outs, EngineFailure)
          /\ GenRaise("EngineError")
          /\ UNCHANGED gen_ret
       \/ \E out \in EngineOutputs(max_tokens) :
             /\ engine_outs' = Append(engine_outs, out)
             /\ gen_ret' = Some([text |-> out.text, tokens_used |-> out.tokens_used,
                                 finish_reason |-> FinishReason(out)])
             /\ gpc' = "return"
             /\ UNCHANGED gen_exc
    /\ UNCHANGED <<text_initialized, genArgs, effective_max_tokens, retry_count, last_error,
                   engine_calls>>
    /\ UNCHANGED <<authVars, scopeVars, imgVars, httpVars>>
    /\ UNCHANGED estVars
    /\ UNCHANGED <<loopVars, taskVars>>

\* generate_text, lines 57-63
GenerateTextReturn ==
    /\ hpc = "service"
    /\ route = "text/generate"
    /\ gpc \in {"return", "raise"}
    /\ IF gpc = "return" THEN Respond(Ok(gen_ret[1]))
       ELSE Respond(ServerError(<<"Text generation failed", gen_exc>>))
    /\ UNCHANGED <<route, x_api_key, authorization, prompt_too_long, size_too_large, auth>>
    /\ UNCHANGED <<authVars, scopeVars, genVars, imgVars>>
    /\ UNCHANGED estVars
    /\ UNCHANGED <<loopVars, taskVars>>

\* stream_text (text_generation.py 66-115): the scope, the prompt length,
\* the StreamingResponse over text_service.generate_stream
StreamText ==
    /\ hpc = "endpoint"
    /\ route = "text/stream"
    /\ IF ~HasWriteScope(auth[1]) THEN Respond(Forbidden("stories:write")) /\ UNCHANGED gpc
       ELSE IF prompt_too_long THEN Respond(BadRequest("Prompt too long")) /\ UNCHANGED gpc
       ELSE /\ gpc' = "generate_stream"
            /\ http_response' = Some(Ok("text/event-stream"))
            /\ hpc' = "streaming"
    /\ UNCHANGED <<route, x_api_key, authorization, prompt_too_long, size_too_large, auth>>
    /\ UNCHANGED <<text_initialized, genArgs, effective_max_tokens, retry_count, last_error,
                   engine_calls, engine_outs, gen_ret, gen_exc>>
    /\ UNCHANGED <<authVars, scopeVars, imgVars>>
    /\ UNCHANGED estVars
    /\ UNCHANGED <<loopVars, taskVars>>

\* text_service.generate_stream, lines 184-201, inside the generator of
\* stream_text (93-107): the chunks, or one chunk that carries the error
TextStreamEngineReturns ==
    /\ gpc = "stream_engine"
    /\ \/ /\ engine_outs' = Append(engine_outs, EngineFailure)
          /\ GenRaise("EngineError")
       \/ \E out \in EngineOutputs(max_tokens) :
             /\ engine_outs' = Append(engine_outs, out)
             /\ gpc' = "return"
             /\ UNCHANGED gen_exc
    /\ hpc' = IF hpc = "streaming" THEN "responded" ELSE hpc
    /\ UNCHANGED <<text_initialized, genArgs, effective_max_tokens, retry_count, last_error,
                   engine_calls, gen_ret>>
    /\ UNCHANGED <<route, x_api_key, authorization, prompt_too_long, size_too_large, auth, http_response>>
    /\ UNCHANGED <<authVars, scopeVars, imgVars>>
    /\ UNCHANGED estVars
    /\ UNCHANGED <<loopVars, taskVars>>

\* the generator of stream_text when generate_stream raised before its
\* first chunk (lines 105-107)
StreamTextError ==
    /\ hpc = "streaming"
    /\ gpc = "raise"
    /\ hpc' = "responded"
    /\ UNCHANGED <<route, x_api_key, authorization, prompt_too_long, size_too_large, auth, http_response>>
    /\ UNCHANGED <<authVars, scopeVars, genVars, imgVars>>
    /\ UNCHANGED estVars
    /\ UNCHANGED <<loopVars, taskVars>>

\* text_generation.py 158-165
GuidedConfigMissing(gtype, schema, pattern, choice, gram) ==
    \/ gtype = "json" /\ ~Truthy(schema)
    \/ gtype = "regex" /\ ~Truthy(pattern)
    \/ gtype = "choice" /\ ~Truthy(choice)
    \/ gtype = "grammar" /\ ~Truthy(gram)

\* generate_structured_output (text_generation.py 118-178): the scope, the
\* prompt length, the guided configuration, the call of generate_structured
\* with its default max_retries
GenerateStructuredOutput ==
    /\ hpc = "endpoint"
    /\ route = "text/structured"
    /\ IF ~HasWriteScope(auth[1])
       THEN Respond(Forbidden("stories:write")) /\ UNCHANGED <<gpc, max_retries>>
       ELSE IF prompt_too_long
       THEN Respond(BadRequest("Prompt too long")) /\ UNCHANGED <<gpc, max_retries>>
       ELSE IF GuidedConfigMissing(guided_type, json_schema, regex_pattern, choices, grammar)
       THEN Respond(BadRequest("guided decoding payload required")) /\ UNCHANGED <<gpc, max_retries>>
       ELSE /\ gpc' = "start"
            /\ max_retries' = DefaultMaxRetries
            /\ hpc' = "service"
            /\ UNCHANGED http_response
    /\ UNCHANGED <<route, x_api_key, authorization, prompt_too_long, size_too_large, auth>>
    /\ UNCHANGED <<text_initialized, guided_type, json_schema, regex_pattern, choices, grammar,
                   max_tokens, effective_max_tokens, retry_count, last_error,
                   engine_calls, engine_outs, gen_ret, gen_exc>>
    /\ UNCHANGED <<authVars, scopeVars, imgVars>>
    /\ UNCHANGED estVars
    /\ UNCHANGED <<loopVars, taskVars>>

\* generate_structured_output, lines 180-186
GenerateStructuredOutputReturn ==
    /\ hpc = "service"
    /\ route = "text/structured"
    /\ gpc \in {"return", "raise"}
    /\ IF gpc = "return" /\ gen_ret # None
       THEN Respond(Ok([output |-> gen_ret[1].output,
                        parsed_output |-> gen_ret[1].parsed_output,
                        tokens_used |-> gen_ret[1].tokens_used,
                        finish_reason |-> gen_ret[1].finish_reason,
                        is_valid |-> gen_ret[1].is_valid]))
       ELSE Respond(ServerError(<<"Structured output generation failed", gen_exc>>))
    /\ UNCHANGED <<route, x_api_key, authorization, prompt_too_long, size_too_large, auth>>
    /\ UNCHANGED <<authVars, scopeVars, genVars, imgVars>>
    /\ UNCHANGED estVars
    /\ UNCHANGED <<loopVars, taskVars>>

\* list_text_models (text_generation.py 189-210) and list_image_models
\* (image_generation.py 118-139): any authenticated caller
ListModels ==
    /\ hpc = "endpoint"
    /\ route \in ModelRoutes
    /\ Respond(Ok("models"))
    /\ UNCHANGED <<route, x_api_key, authorization, prompt_too_long, size_too_large, auth>>
    /\ UNCHANGED <<authVars, scopeVars, genVars, imgVars>>
    /\ UNCHANGED estVars
    /\ UNCHANGED <<loopVars, taskVars>>

\* generate_image (image_generation.py 15-115): the scope, then the call
\* image_service.generate(..., trace_id=request_id).  generate (159-168) has
\* no parameter trace_id: the call raises TypeError before the body of
\* generate runs, and the endpoint turns it into a 500.  The dimension tests
\* of lines 61-66 come between the two; a validated body never meets them
\* (schemas/image.py 22-23).
GenerateImage ==
    /\ hpc = "endpoint"
    /\ route = "images/generate"
    /\ IF ~HasWriteScope(auth[1]) THEN Respond(Forbidden("stories:write"))
       ELSE IF size_too_large THEN Respond(BadRequest("Width too large (max 2048 pixels)"))
       ELSE Respond(ServerError(<<"Image generation failed", "TypeError">>))
    /\ UNCHANGED <<route, x_api_key, authorization, prompt_too_long, size_too_large, auth>>
    /\ UNCHANGED <<authVars, scopeVars, genVars, imgVars>>
    /\ UNCHANGED estVars
    /\ UNCHANGED <<loopVars, taskVars>>

\* the body of the request failed the validation of ImageGenerationRequest:
\* the endpoint function is not called, the request is answered 422
RequestValidationError ==
    /\ hpc = "validation"
    /\ Respond(UnprocessableEntity("less_than_equal"))
    /\ UNCHANGED <<route, x_api_key, authorization, prompt_too_long, size_too_large, auth>>
    /\ UNCHANGED <<authVars, scopeVars, genVars, imgVars>>
    /\ UNCHANGED estVars
    /\ UNCHANGED <<loopVars, taskVars>>

HeaderKeys == {None} \cup { Some(k) : k \in Secrets }

InitHttp ==
    /\ InitImgIdle
    /\ api_keys \in HttpTables
    /\ users \in UserTables
    /\ database_url \in BOOLEAN
    /\ clock = 0
    /\ InitCall
    /\ api_key = << >>
    /\ vpc = "none"
    /\ auth_result = None
    /\ has_scope_ret = None
    /\ hpc = "dependency"
    /\ route \in Routes
    /\ x_api_key \in HeaderKeys
    /\ authorization \in {None, Some(<<"Bearer", KeyAx>>)}
    /\ auth = None
    /\ http_response = None
    /\ required_scope \in IF route \in ScopedRoutes THEN { Some(r) : r \in ScopeNames } ELSE {None}
    /\ prompt_too_long \in IF route \in PostRoutes \ {"images/generate"} THEN BOOLEAN ELSE {FALSE}
    /\ text_initialized \in BOOLEAN
    /\ gpc = "none"
    /\ guided_type \in IF route = "text/structured" THEN {"json", "regex", "choice", "grammar"}
                       ELSE {"json"}
    /\ json_schema \in IF route = "text/structured" THEN {None, Some(SchemaEmptyDict), Some(SchemaFlat)}
                       ELSE {None}
    /\ regex_pattern \in IF route = "text/structured" THEN OptionalPatterns ELSE {None}
    /\ choices = None
    /\ grammar = None
    /\ max_tokens = DefaultMaxTokens
    /\ max_retries = DefaultMaxRetries
    /\ effective_max_tokens = 0
    /\ retry_count = 0
    /\ last_error = None
    /\ engine_calls = << >>
    /\ engine_outs = << >>
    /\ gen_ret = None
    /\ gen_exc = "none"
    /\ InitEstIdle
    /\ InitLoopIdle
    /\ InitTasksIdle
    /\ size_too_large \in IF route = "images/generate" THEN BOOLEAN ELSE {FALSE}

NextHttp ==
    \/ RequireApiKey
    \/ NextVerify
    \/ RequireApiKeyReturn
    \/ ScopeChecker
    \/ GenerateText
    \/ TextGenerateStart
    \/ TextGenerateEngineReturns
    \/ GenerateTextReturn
    \/ StreamText
    \/ TextStreamEngineReturns
    \/ StreamTextError
    \/ GenerateStructuredOutput
    \/ NextText
    \/ GenerateStructuredOutputReturn
    \/ ListModels
    \/ GenerateImage
    \/ RequestValidationError

SpecHttp == InitHttp /\ [][NextHttp]_vars

(***************************************************************************)
(* The gate in front of the endpoints: properties                          *)
(***************************************************************************)
NoCredential == x_api_key = None \/ x_api_key[1] = << >>

NotFound == vpc = "return" /\ auth_result = None

Verified == vpc = "return" /\ auth_result # None

\* the scope an operation requires, None when it requires none
RequiredScope ==
    IF route \in PostRoutes THEN Some("stories:write")
    ELSE IF route \in ScopedRoutes THEN required_scope
    ELSE None

FailureEndsCall ==
    /\ \A i \in DOMAIN engine_outs :
          engine_outs[i].failed =>
              /\ i = Len(engine_outs)
              /\ Len(engine_calls) = i
              /\ gpc = "raise"
              /\ gen_exc = "EngineError"
              /\ gen_ret = None
    /\ (backend_response # None /\ ~backend_response[1].ok) =>
          /\ ipc = "raise"
          /\ img_exc = "HTTPError"
          /\ img_ret = None

\* a call that has raised sends nothing more to the engine or the backend
NothingAfterRaise ==
    /\ gpc = "raise" => UNCHANGED <<engine_calls, engine_outs, gpc>>
    /\ ipc = "raise" => UNCHANGED <<backend_response, prompt_id, ipc>>

\* C10: a failure of an engine call is never retried: when the text engine
\* raises in any attempt, or the submit, a history poll or the artifact fetch
\* fails, the operation ends at once with that failure and makes no further
\* engine or backend call, whatever retries or time remain.
C10_FailureNotRetried == []FailureEndsCall /\ [][NothingAfterRaise]_vars

\* witness of C10: the engine raised in the second attempt of a request that
\* had one more retry left, and the call raised
C10_Witness ==
    /\ guided_type = "json"
    /\ max_retries = 2
    /\ Len(engine_outs) = 2
    /\ engine_outs[2].failed
    /\ gpc = "raise"

(***************************************************************************)
(* The retry loop: properties                                              *)
(***************************************************************************)
GenEnded == gpc \in {"return", "raise"}

Unparseable(out) == ~out.failed /\ JsonLoads(out.text) = None

Parseable(out) == ~out.failed /\ JsonLoads(out.text) # None

LastOut == engine_outs[Len(engine_outs)]

\* C3: for a json request in which every attempt's output fails to parse,
\* the call makes exactly max_retries + 1 engine calls and then returns (does
\* not raise) a result with is_valid = false whose output is the raw output
\* of the final attempt and which records the parse error.
C3_Exhausted ==
    ( /\ GenEnded
      /\ guided_type = "json"
      /\ engine_outs # << >>
      /\ \A i \in DOMAIN engine_outs : Unparseable(engine_outs[i]) )
    =>
    ( /\ gpc = "return"
      /\ gen_exc = "none"
      /\ Len(engine_calls) = max_retries + 1
      /\ Len(engine_outs) = max_retries + 1
      /\ gen_ret # None
      /\ gen_ret[1].is_valid = FALSE
      /\ gen_ret[1].parsed_output = None
      /\ gen_ret[1].output = LastOut.text
      /\ gen_ret[1].error = Some(JsonError(LastOut.text)) )

\* witness of C3: three attempts failed to parse, the first with another text
\* than the last, and the call returned
C3_Witness ==
    /\ gpc = "return"
    /\ guided_type = "json"
    /\ Len(engine_outs) = 3
    /\ \A i \in DOMAIN engine_outs : Unparseable(engine_outs[i])
    /\ engine_outs[1].text # engine_outs[3].text

\* C4 as stated: every attempt n+1 is issued with a token budget strictly
\* larger than the budget of attempt n.
C4_AsStated ==
    \A i \in 1..(Len(engine_calls) - 1) :
        engine_calls[i + 1].max_tokens > engine_calls[i].max_tokens

\* C5: a json request stops at the first attempt whose output parses: if
\* attempt k is the first to parse, exactly k + 1 engine calls are made, none
\* follows it, and the result has is_valid = true, the parsed value and
\* retry_count = k.
C5_FirstParse ==
    guided_type = "json" =>
        \A i \in DOMAIN engine_outs :
            Parseable(engine_outs[i]) =>
                /\ i = Len(engine_outs)
                /\ Len(engine_calls) = i
                /\ \A j \in 1..(i - 1) : Unparseable(engine_outs[j])
                /\ gpc = "return"
                /\ gen_ret # None
                /\ gen_ret[1].is_valid = TRUE
                /\ gen_ret[1].parsed_output = JsonLoads(engine_outs[i].text)
                /\ gen_ret[1].output = engine_outs[i].text
                /\ gen_ret[1].retry_count = i - 1

\* witness of C5: the third attempt was the first to parse
C5_Witness ==
    /\ guided_type = "json"
    /\ gpc = "return"
    /\ Len(engine_outs) = 3
    /\ Parseable(engine_outs[3])

\* C6: for a regex, choice or grammar request exactly one engine call occurs
\* whatever the output is, and that output is returned as-is with
\* is_valid = true, no parsed value and attempt count 0.
C6_NonSchema ==
    guided_type # "json" =>
        /\ Len(engine_calls) <= 1
        /\ gpc = "return" => Len(engine_calls) = 1
        /\ (engine_outs # << >> /\ ~engine_outs[1].failed) =>
              /\ gpc = "return"
              /\ gen_ret # None
              /\ gen_ret[1].output = engine_outs[1].text
              /\ gen_ret[1].is_valid = TRUE
              /\ gen_ret[1].parsed_output = None
              /\ gen_ret[1].retry_count = 0

\* witness of C6: a regex request returned an output that is no JSON
C6_Witness ==
    /\ guided_type = "regex"
    /\ gpc = "return"
    /\ gen_ret # None
    /\ gen_ret[1].output = TextGarbled
    /\ max_retries = 2

\* C15: the token budget of the first attempt is the requested max_tokens plus
\* the estimator's output for the schema when the kind is json, and exactly
\* the requested max_tokens when the kind is regex, choice or grammar.
C15_FirstBudget ==
    engine_calls # << >> =>
        engine_calls[1].max_tokens =
            IF guided_type = "json"
            THEN max_tokens + _estimate_json_closing_tokens(json_schema[1])
            ELSE max_tokens

\* C15 witness: a json request with the array-of-objects schema has made its
\* first engine call.
C15_Witness ==
    /\ guided_type = "json"
    /\ json_schema = Some(SchemaArrayOfObjects)
    /\ Len(engine_calls) >= 1
    /\ engine_calls[1].max_tokens > max_tokens

\* C16 as stated: once the prefix query has run, the hash loop finds a record
\* exactly when some stored active record with the key's prefix has a hash
\* that verifies the key, however many records share the prefix.
C16_AsStated ==
    (queries >= 1 /\ caught = "none") =>
        (matched_key # 0 <=>
            \E i \in PrefixCandidates(api_keys, KeyPrefixOf(api_key)) :
                BcryptCheckpw(api_key, api_keys[i].key_hash))

\* the hash loop matched a record whose expiry lies before now
MatchedExpired ==
    /\ matched_key # 0
    /\ api_keys[matched_key].expires_at # None
    /\ api_keys[matched_key].expires_at[1] < clock

\* C17: when the record whose hash matches the key has an expiry earlier than
\* now, verification returns not-found without raising, no AuthResult reaches
\* the endpoint, and the request is answered with the 401 of an unknown key.
C17_ExpiredIsNotFound ==
    MatchedExpired =>
        /\ vpc = "return"
        /\ auth_result = None
        /\ caught = "none"
        /\ auth = None
        /\ http_response # None =>
              http_response[1] = Unauthorized("Invalid or expired API key")

\* C17 witness: a request whose key matched an expired record has been answered.
C17_Witness ==
    /\ MatchedExpired
    /\ http_response # None
    /\ http_response[1].status = 401

\* the hash loop matched a record whose user_id has no row in users
OwnerMissing ==
    /\ matched_key # 0
    /\ api_keys[matched_key].user_id \notin users

\* C18: when the matched record's owner has no row in users, verification
\* produces no AuthResult; once the user query has come back empty the call
\* has returned not-found without raising, and the request is answered with
\* the 401 of an unknown key.
C18_OwnerMissingIsNotFound ==
    OwnerMissing =>
        /\ auth_result = None
        /\ auth = None
        /\ (queries >= 2 /\ caught = "none") => vpc = "return"
        /\ http_response # None =>
              http_response[1] = Unauthorized("Invalid or expired API key")

\* C18 witness: a request whose key matched an unexpired record without an
\* owner row has been answered after the user query came back empty.
C18_Witness ==
    /\ OwnerMissing
    /\ ~MatchedExpired
    /\ queries = 2
    /\ caught = "none"
    /\ http_response # None
    /\ http_response[1].status = 401

\* the step that leaves the last-used update without having written it
UpdateFails == vpc = "update" /\ UNCHANGED api_keys

\* C19: when the update of last_used_at (or its commit) fails, the call still
\* returns, in that very step, the AuthResult of the matched record, and
\* nothing reaches the outer except clause.
C19_UpdateBestEffort ==
    [][UpdateFails =>
          /\ vpc' = "return"
          /\ caught' = "none"
          /\ auth_result' = Some(AuthResult(api_keys[matched_key].user_id,
                                            <<"email", api_keys[matched_key].user_id>>,
                                            api_keys[matched_key].scopes))]_vars

\* C19 witness: a call has returned an AuthResult after its user query, with
\* no third statement executed and last_used_at of the matched record unset.
C19_Witness ==
    /\ vpc = "return"
    /\ auth_result # None
    /\ matched_key # 0
    /\ queries = 2
    /\ api_keys[matched_key].last_used_at = None

\* the key is empty or shorter than the prefix
TooShort == api_key = << >> \/ Len(api_key) < PrefixLen

\* C20: for a key that is empty or shorter than 16 characters the call never
\* acquires a connection and never executes a statement, and what it returns
\* is not-found.
C20_ShortKeyNoStore ==
    (TooShort /\ vpc # "none") =>
        /\ vpc \in {"call", "return"}
        /\ conn = "none"
        /\ queries = 0
        /\ api_key_records = {}
        /\ caught = "none"
        /\ auth_result = None

\* C20 witness: a call with a non-empty key shorter than the prefix has returned.
C20_Witness ==
    /\ TooShort
    /\ api_key # << >>
    /\ vpc = "return"

\* C21: a connection the call acquired is open only between its acquisition
\* and the call's return: once verify_api_key has returned, by the AuthResult,
\* by any of its not-found returns or through its except clause, no
\* connection is open.
C21_NoLeak ==
    /\ vpc = "return" => conn \in {"none", "closed"}
    /\ conn = "open" => vpc \in {"select_keys", "select_user", "update"}
    /\ (vpc = "return" /\ queries >= 1) => conn = "closed"

\* C21 witness: a call whose store query raised after the connection was
\* acquired has returned.
C21_Witness ==
    /\ vpc = "return"
    /\ caught = "DatabaseError"
    /\ conn = "closed"

\* the task is inside the store round-trip of verify_api_key
StoreWait == vpc \in {"connect", "select_keys", "select_user", "update"}

\* C22 as stated: while a request's task waits on the credential store
\* (connect, prefix query, hash checks, user query, last-used update), the
\* task of a sibling request that is ready to run can be run by the loop.
C22_AsStated ==
    (StoreWait /\ sibling_pc = "ready") => ENABLED SiblingRuns

\* C23: while the wait sleeps between two polls of a job not yet in history
\* its task does not keep the loop's thread, so the loop can run a sibling's
\* task that is ready; and a poll that follows an answer "not in history" is
\* issued no earlier than one poll interval after the sleep began.
C23_SleepSuspends ==
    /\ (ipc = "sleep" /\ sibling_pc = "ready") => ENABLED SiblingRuns
    /\ (ipc \in {"check", "poll"} /\ history = Some("absent")) =>
          now >= sleep_start + PollInterval

\* C23 witness: the sibling's task ran to completion while the wait was
\* asleep, and the wait has gone on to its next poll.
C23_Witness ==
    /\ sibling_pc = "done"
    /\ sibling_ran_at = Some(<<"none", "sleep">>)
    /\ ipc = "poll"
    /\ history = Some("absent")

\* the engine calls of the request that have started and not yet finished
InFlight == Len(engine_calls) - Len(engine_outs)

\* C24: the attempts of one structured request are strictly sequential: at
\* most one engine call is in flight at any time, and a further engine call
\* starts only when every earlier one has finished and its output failed to
\* parse (the outcome of the parse is recorded before the next call starts)
C24_Sequential ==
    [][ /\ InFlight \in {0, 1}
        /\ InFlight' \in {0, 1}
        /\ (gpc = "engine") <=> (InFlight = 1)
        /\ Len(engine_calls') > Len(engine_calls) =>
              /\ InFlight = 0
              /\ Len(engine_calls) = retry_count
              /\ Len(engine_calls) >= 1 =>
                    /\ last_error = Some(JsonError(engine_outs[Len(engine_outs)].text))
                    /\ JsonLoads(engine_outs[Len(engine_outs)].text) = None ]_vars

\* C24 witness: a second attempt is in flight after the first one's output
\* was received and failed to parse
C24_Witness ==
    /\ gpc = "engine"
    /\ Len(engine_calls) = 2
    /\ Len(engine_outs) = 1
    /\ last_error # None

\* C25: the request identifiers handed to the engine for the attempts of one
\* structured request are pairwise distinct
C25_DistinctRequestIds ==
    \A i, j \in 1..Len(engine_calls) :
        i # j => engine_calls[i].request_id # engine_calls[j].request_id

\* C25 witness: a request that made three attempts, each under its own
\* identifier
C25_Witness ==
    /\ Len(engine_calls) = 3
    /\ gpc = "return"
    /\ Cardinality({ engine_calls[i].request_id : i \in 1..3 }) = 3

RECURSIVE TokensOfAttempts(_)
\* the tokens the engine produced over a sequence of finished attempts
TokensOfAttempts(outs) ==
    IF outs = << >> THEN 0
    ELSE outs[1].tokens_used + TokensOfAttempts(Tail(outs))

\* C26 as stated: when a structured request that needed a retry is answered
\* from a result, the result reports the number of attempts and its token
\* usage covers every attempt made, and the response body carries the
\* attempt count and the last stop reason
C26_AsStated ==
    (/\ route = "text/structured"
     /\ hpc = "responded"
     /\ gen_ret # None
     /\ Len(engine_outs) >= 2
     /\ http_response[1].status = 200) =>
        /\ gen_ret[1].retry_count + 1 = Len(engine_outs)
        /\ gen_ret[1].tokens_used >= TokensOfAttempts(engine_outs)
        /\ "finish_reason" \in DOMAIN http_response[1].detail
        /\ "retry_count" \in DOMAIN http_response[1].detail

\* a step of the call that sends a request to the backend: POST /prompt,
\* GET /history/{prompt_id} or GET /view
SendsToBackend == QueuePrompt \/ WaitPollHistory \/ WaitFetchImage

\* C27: once the timeout failure is reported for a job the call is over, and
\* no step that sends anything to the backend (a submission, a history poll,
\* an artifact fetch; the code has no cancellation request at all) can be
\* taken for it any more, nor a further sleep: the backend's job is left alone
C27_NothingAfterTimeout ==
    img_exc = "TimeoutError" =>
        /\ ipc = "raise"
        /\ history = Some("absent")
        /\ ~ENABLED SendsToBackend
        /\ ~ENABLED WaitSleep

\* C27 witness: the timeout was reported for a submitted job that every poll
\* found absent from the history
C27_Witness ==
    /\ img_exc = "TimeoutError"
    /\ ipc = "raise"
    /\ prompt_id # None
    /\ now - start_time > WaitTimeout

\* C28: a rejection is determined by the request alone.  The 401 response
\* is one fixed response for a request without a credential and one fixed
\* response for a request with one, whatever the store holds (no record, a
\* hash mismatch, an inactive or expired record, a record without an owner,
\* a store failure); the 403 response names the required scope and nothing
\* else, whatever scopes the principal holds.
C28_RejectionsCarryNoState ==
    http_response # None =>
        /\ http_response[1].status = 401 =>
              http_response[1] =
                  [status |-> 401,
                   detail |-> IF NoCredential THEN "API key required"
                              ELSE "Invalid or expired API key"]
        /\ http_response[1].status = 403 =>
              /\ RequiredScope # None
              /\ http_response[1] =
                    [status |-> 403,
                     detail |-> <<"Insufficient permissions. Required scope:",
                                  RequiredScope[1]>>]

\* C28 witness: a key whose record was found and whose hash verified was
\* answered 401 all the same (the record was expired or had no owner)
C28_Witness ==
    /\ http_response # None
    /\ http_response[1].status = 401
    /\ ~NoCredential
    /\ matched_key # 0
    /\ caught = "none"

\* the store is reachable and holds an active, unexpired record for the key,
\* with a matching hash and an owner in the users table
ValidKey(key) ==
    /\ database_url
    /\ \E i \in DOMAIN api_keys :
          /\ RowAdmits(api_keys[i], key)
          /\ api_keys[i].user_id \in users

\* C29 as stated: a request that presents a valid key as
\* "Authorization: Bearer <key>", with no x-api-key header, is
\* authenticated and served: its response is not a 401
C29_AsStated ==
    (/\ authorization # None
     /\ authorization[1][1] = "Bearer"
     /\ ValidKey(authorization[1][2])
     /\ x_api_key = None
     /\ http_response # None) =>
        http_response[1].status # 401

\* C30 as stated: an image generation request of a verified holder of
\* stories:write whose width or height is above 2048 is answered with
\* status 400, and no job is submitted to the backend
C30_AsStated ==
    (/\ route = "images/generate"
     /\ size_too_large
     /\ Verified
     /\ has_scope(auth_result[1].scopes, "stories:write")
     /\ http_response # None) =>
        /\ http_response[1].status = 400
        /\ prompt_id = None
        /\ backend_response = None

\* the call of generate is over
ImgEnded == ipc \in {"return", "raise"}

\* C31: submit-and-wait always terminates (it does not poll forever), and
\* in exactly one outcome: Completed (the artifact is returned and nothing
\* is raised), TimedOut or Failed (one error is raised and nothing is
\* returned); before it ends no outcome is reported
C31_TerminatesInOneOutcome ==
    /\ <>ImgEnded
    /\ [](/\ ipc = "return" => (img_ret # None /\ img_exc = "none")
          /\ ipc = "raise" => (img_ret = None /\ img_exc # "none")
          /\ ~ImgEnded => (img_ret = None /\ img_exc = "none"))

\* C31 witness: a job that several polls found absent was then found
\* complete, and its artifact was returned
C31_Witness ==
    /\ ipc = "return"
    /\ img_ret # None
    /\ history = Some("images")
    /\ now - start_time > 2 * PollInterval

\* C32 as stated: an image generation request of a verified holder of
\* stories:write, with in-range parameters, does not fail between the gate
\* and the submission: when it is answered, a job graph has been submitted
\* to the backend (POST /prompt was sent)
C32_AsStated ==
    (/\ route = "images/generate"
     /\ Verified
     /\ has_scope(auth_result[1].scopes, "stories:write")
     /\ BodyIsValid
     /\ http_response # None) =>
        /\ ipc # "none"
        /\ backend_response # None

\* the constraint kinds whose payload the request carries
PayloadsPresent ==
    {k \in {"json", "regex", "choice", "grammar"} :
        \/ k = "json" /\ json_schema # None
        \/ k = "regex" /\ regex_pattern # None
        \/ k = "choice" /\ choices # None
        \/ k = "grammar" /\ grammar # None}

\* C33 as stated: a guided request reaches the engine only if exactly one
\* constraint payload is present and it is the payload of the request's
\* kind; every other combination is rejected before any engine call
C33_AsStated ==
    /\ engine_calls # << >> => PayloadsPresent = {guided_type}
    /\ (PayloadsPresent # {guided_type} /\ gpc \notin {"start"}) =>
          /\ gpc = "raise"
          /\ engine_calls = << >>

RECURSIVE ItemSchemas(_), ItemSchemasOfProps(_, _), ItemSchemasOfList(_, _)

\* the number of array item schemas in a constraint schema: the "items"
\* entries met on the way through properties, items and alternatives
ItemSchemas(schema) ==
    IF ~IsDict(schema) THEN 0
    ELSE (IF HasKey(schema, "properties")
          THEN ItemSchemasOfProps(schema.f.properties, DOMAIN schema.f.properties.f)
          ELSE 0)
         + (IF HasKey(schema, "items") THEN 1 + ItemSchemas(schema.f.items) ELSE 0)
         + (IF HasKey(schema, "oneOf") THEN ItemSchemasOfList(schema.f.oneOf.q, 1) ELSE 0)
         + (IF HasKey(schema, "anyOf") THEN ItemSchemasOfList(schema.f.anyOf.q, 1) ELSE 0)
         + (IF HasKey(schema, "allOf") THEN ItemSchemasOfList(schema.f.allOf.q, 1) ELSE 0)

ItemSchemasOfProps(props, names) ==
    IF names = {} THEN 0
    ELSE LET name == CHOOSE n \in names : TRUE
         IN  ItemSchemas(props.f[name]) + ItemSchemasOfProps(props, names \ {name})

ItemSchemasOfList(subs, idx) ==
    IF idx > Len(subs) THEN 0
    ELSE ItemSchemas(subs[idx]) + ItemSchemasOfList(subs, idx + 1)

\* C34 as stated: the analysis counts each array once: array_fields equals
\* the number of array item schemas in the schema analysed
C34_AsStated ==
    est_analysis # None =>
        est_analysis[1].array_fields = ItemSchemas(est_schema)

\* the seven inputs a request sets: node id and input name
RequestLeaves ==
    { <<"6", "text">>, <<"7", "text">>, <<"3", "seed">>, <<"3", "steps">>, <<"3", "cfg">>,
      <<"58", "width">>, <<"58", "height">> }

\* the graph has the template's nodes, each with the template's class_type
\* and input names, and every input that is not one of the seven is the
\* template's (the references between nodes among them)
SameGraphShape(graph, template) ==
    /\ DOMAIN graph.f = DOMAIN template.f
    /\ \A node \in DOMAIN template.f :
          /\ DOMAIN graph.f[node].f = DOMAIN template.f[node].f
          /\ graph.f[node].f.class_type = template.f[node].f.class_type
          /\ DOMAIN graph.f[node].f.inputs.f = DOMAIN template.f[node].f.inputs.f
          /\ \A field \in DOMAIN template.f[node].f.inputs.f :
                <<node, field>> \notin RequestLeaves =>
                    graph.f[node].f.inputs.f[field] = template.f[node].f.inputs.f[field]

\* the job graph the backend accepted for the task's request
SubmittedGraph(t) == backend_queue[tasks[t].prompt_id[1][2]]

\* C35: the job graph submitted for a request has exactly the template's
\* nodes, operation types and inter-node references and differs from the
\* template at most in the seven leaves, each of which holds the request's
\* value (the empty text for an absent negative prompt, the drawn seed for
\* an absent seed)
C35_GraphIsTemplateWithRequestLeaves ==
    \A t \in DOMAIN tasks :
        tasks[t].prompt_id # None =>
            LET graph == SubmittedGraph(t)
                a == tasks[t].args
                input(node, field) == graph.f[node].f.inputs.f[field]
            IN  /\ SameGraphShape(graph, WorkflowTemplate)
                /\ input("6", "text") = JStr(a.prompt)
                /\ input("7", "text") =
                       JStr(IF a.negative_prompt = None THEN "" ELSE a.negative_prompt[1])
                /\ input("3", "seed") = JNum(tasks[t].seed[1])
                /\ a.seed # None => tasks[t].seed = a.seed
                /\ input("3", "steps") = JNum(a.num_inference_steps)
                /\ input("3", "cfg") = JFloat(a.guidance_scale)
                /\ input("58", "width") = JNum(a.width)
                /\ input("58", "height") = JNum(a.height)

\* C35 witness: the backend accepted the job of a request that sets every
\* one of the seven leaves to a value other than the template's
C35_Witness ==
    \E t \in DOMAIN tasks :
        /\ tasks[t].prompt_id # None
        /\ tasks[t].args.seed = Some(7)
        /\ \A leaf \in RequestLeaves :
              SubmittedGraph(t).f[leaf[1]].f.inputs.f[leaf[2]]
                  # WorkflowTemplate.f[leaf[1]].f.inputs.f[leaf[2]]

\* the locals of a text request are determined by its own arguments and by
\* the engine's answers to its own calls
OwnTextState(t) ==
    LET a == tasks[t].args
        own == EffectiveMaxTokens(a.guided_type, a.json_schema, a.max_tokens)
        c == tasks[t].calls
    IN  /\ tasks[t].effective_max_tokens \in {0, own}
        /\ \A i \in DOMAIN c :
              c[i] = [request_id |-> RequestId(t, i - 1),
                      max_tokens |-> CurrentMaxTokens(own, i - 1)]
        /\ tasks[t].retry_count = IF tasks[t].pc = "loop" THEN Len(c)
                                  ELSE IF c = << >> THEN 0 ELSE Len(c) - 1
        /\ Len(tasks[t].outs) = IF tasks[t].pc = "engine" THEN Len(c) - 1 ELSE Len(c)
        /\ tasks[t].ret # None =>
              /\ tasks[t].ret[1].output = tasks[t].outs[Len(c)].text
              /\ tasks[t].ret[1].retry_count = Len(c) - 1

\* the locals of an image request are determined by its own arguments, its
\* own seed and the job the backend made of its own graph
OwnImageState(t) ==
    LET a == tasks[t].args
    IN  /\ tasks[t].workflow # None =>
              tasks[t].workflow[1] =
                  _prepare_workflow(WorkflowTemplate, a.prompt,
                      IF a.negative_prompt = None THEN "" ELSE a.negative_prompt[1],
                      a.width, a.height, a.num_inference_steps, a.guidance_scale,
                      tasks[t].seed[1])
        /\ tasks[t].prompt_id # None => SubmittedGraph(t) = tasks[t].workflow[1]
        /\ tasks[t].polled \subseteq
              (IF tasks[t].prompt_id = None THEN {} ELSE {tasks[t].prompt_id[1]})
        /\ tasks[t].ret # None =>
              /\ tasks[t].ret[1].image_of = tasks[t].prompt_id[1]
              /\ tasks[t].ret[1].seed = tasks[t].seed[1]
              /\ tasks[t].ret[1].num_inference_steps = a.num_inference_steps
        /\ \A u \in DOMAIN tasks \ {t} :
              tasks[t].prompt_id # None => tasks[u].prompt_id # tasks[t].prompt_id

\* C36: under every interleaving of two requests on the shared service
\* instances, a step changes the locals of one request only, each request's
\* attempt counter, token budgets, polled job, submitted graph and result
\* are those its own arguments and its own engine and backend answers
\* determine, and the shared workflow template is never modified
C36_RequestsDoNotInterfere ==
    /\ [](/\ workflow_template = WorkflowTemplate
          /\ \A t \in DOMAIN tasks :
                IF tasks[t].kind = "text" THEN OwnTextState(t) ELSE OwnImageState(t))
    /\ [][\A t \in DOMAIN tasks :
             tasks'[t] # tasks[t] =>
                 \A u \in DOMAIN tasks \ {t} : tasks'[u] = tasks[u]]_vars

\* C36 witness: two image requests with different arguments ran interleaved
\* (the second task's job was accepted first) and both returned
C36_Witness ==
    /\ DOMAIN tasks = Tasks
    /\ tasks["Task-1"].args # tasks["Task-2"].args
    /\ tasks["Task-1"].pc = "return" /\ tasks["Task-1"].ret # None
    /\ tasks["Task-2"].pc = "return" /\ tasks["Task-2"].ret # None
    /\ tasks["Task-1"].kind = "image" /\ tasks["Task-2"].kind = "image"
    /\ tasks["Task-2"].prompt_id = Some(JobId(1))
    /\ tasks["Task-1"].prompt_id = Some(JobId(2))

\* C37: a step of verify_api_key changes the api_keys table only by setting
\* last_used_at of the matched record, and only in the step that returns the
\* AuthResult; a step that returns not-found changes nothing, no row is
\* removed and no row's is_active (or any other column) changes; a call
\* that returned not-found has stamped no record.
C37_OnlyLastUsedOnSuccess ==
    /\ [][/\ Len(api_keys') = Len(api_keys)
          /\ \A i \in DOMAIN api_keys :
                [api_keys'[i] EXCEPT !.last_used_at = api_keys[i].last_used_at]
                    = api_keys[i]
          /\ api_keys' # api_keys =>
                /\ matched_key # 0
                /\ api_keys' = [api_keys EXCEPT ![matched_key].last_used_at = Some(clock)]
                /\ vpc' = "return"
                /\ auth_result' # None
          /\ (vpc' = "return" /\ auth_result' = None) => api_keys' = api_keys]_vars
    /\ []((vpc = "return" /\ auth_result = None) =>
             \A i \in DOMAIN api_keys : api_keys[i].last_used_at = None)

\* C37 witness: a verification succeeded against a store that holds another
\* record with the key's prefix; the matched record is stamped, the other
\* record is as it was.
C37_Witness ==
    /\ vpc = "return"
    /\ auth_result # None
    /\ api_keys[matched_key].last_used_at = Some(clock)
    /\ \E i \in DOMAIN api_keys \ {matched_key} :
          /\ api_keys[i].key_prefix = KeyPrefixOf(api_key)
          /\ api_keys[i].last_used_at = None
          /\ api_keys[i].is_active

\* the call got past the length test and then failed to acquire a connection
StoreUnavailable == vpc \notin {"none", "call", "connect"} /\ conn = "none" /\ queries = 0 /\ ~TooShort

\* C38: when settings.database_url is unset, or psycopg2.connect fails, the
\* HTTPException(500) of get_db_connection is caught inside verify_api_key:
\* the call returns not-found, the dependency answers the 401 of an invalid
\* key, no AuthResult reaches an endpoint and no service is called.  With
\* the store unconfigured no request at all is admitted or answered 500.
C38_StoreDownIsNotFound ==
    /\ StoreUnavailable =>
          /\ vpc = "return"
          /\ caught = "HTTPException"
          /\ auth_result = None
          /\ auth = None
          /\ gpc = "none" /\ ipc = "none"
          /\ http_response # None =>
                http_response[1] = Unauthorized("Invalid or expired API key")
    /\ ~database_url =>
          /\ auth = None
          /\ vpc \notin {"none", "call", "connect"} => (StoreUnavailable \/ TooShort)
          /\ http_response # None => http_response[1].status = 401

\* C38 witness: a request carrying a key the store would accept has been
\* answered 401 because the connection could not be made, although the store
\* is configured.
C38_Witness ==
    /\ StoreUnavailable
    /\ database_url
    /\ \E i \in DOMAIN api_keys :
          /\ BcryptCheckpw(api_key, api_keys[i].key_hash)
          /\ api_keys[i].is_active
          /\ api_keys[i].expires_at = None
          /\ api_keys[i].user_id \in users
    /\ http_response # None
    /\ http_response[1].status = 401

\* C39 as stated: for every integer max_retries, a call with a valid guided
\* configuration on a service that loads makes at least one engine call and
\* ends with a result record or with an exception.
C39_AsStated ==
    (/\ gpc \in {"return", "raise"}
     /\ text_initialized
     /\ GuidedParamsBuilt(guided_type, json_schema, regex_pattern, choices, grammar)) =>
        /\ Len(engine_calls) >= 1
        /\ gen_ret # None \/ gen_exc # "none"
====
